---- MODULE Spec2Model ----
(***************************************************************************)
(* Wall-go ("Stitched Territory"): the rules engine of App.tsx (the turn   *)
(* state machine, the timer and the AI callbacks), the board primitives of *)
(* utils/boardUtils.ts and the AI search of utils/aiUtils.ts.              *)
(*                                                                         *)
(* The React component keeps one GameState object; every handler and every *)
(* setGameState updater is one atomic step on it.  Timer callbacks that    *)
(* are scheduled but have not run yet are state of their own (aiTimer,     *)
(* endTurnTimer).                                                          *)
(***************************************************************************)
EXTENDS Integers, Sequences, FiniteSets, TLC

\* ------------------------------------------------------------------ bounds
\* Side length of the board (7 in types.ts; the engine is size-parametric).
BOARD_SIZE == 3
\* Seconds of a turn (90 in types.ts), counted down by the interval.
TURN_TIME_LIMIT == 2
\* Turn ends explored per run (turns are not bounded by the program).
MaxTurns == 2
\* A placement (human click or AI random pick) lands on one of the first
\* MaxPlaceChoice empty cells in row-major order.
MaxPlaceChoice == 2
\* handleStartGame is called with playerCount in 2..MaxPlayerCount.
MaxPlayerCount == 3

\* ------------------------------------------------------------------- types
RED == "RED"
BLUE == "BLUE"
GREEN == "GREEN"
YELLOW == "YELLOW"
Player == {RED, BLUE, GREEN, YELLOW}
\* null (no occupant, no wall owner, no winner, no game mode)
Null == "NULL"
DRAW == "DRAW"

PLACEMENT == "PLACEMENT"
ACTION_SELECT == "ACTION_SELECT"
ACTION_MOVE == "ACTION_MOVE"
ACTION_WALL == "ACTION_WALL"
GAME_OVER == "GAME_OVER"
GamePhase == {PLACEMENT, ACTION_SELECT, ACTION_MOVE, ACTION_WALL, GAME_OVER}

PVP == "PVP"
PVAI == "PVAI"
GameMode == {PVP, PVAI}

\* keyof WallState
WallSide == {"top", "right", "bottom", "left"}

\* A Coordinate is <<x, y>>; board[y][x] of the code is board[<<x, y>>].
Coordinate == (0 .. BOARD_SIZE - 1) \X (0 .. BOARD_SIZE - 1)

\* ------------------------------------------------------------- boardUtils
createInitialBoard ==
    [c \in Coordinate |->
        [occupant |-> Null,
         walls |-> [s \in WallSide |-> Null]]]

isValidCoordinate(c) ==
    /\ c[1] >= 0 /\ c[1] < BOARD_SIZE
    /\ c[2] >= 0 /\ c[2] < BOARD_SIZE

\* The cell across a side (possibly outside the board).
Across(c, side) ==
    CASE side = "top"    -> <<c[1], c[2] - 1>>
      [] side = "bottom" -> <<c[1], c[2] + 1>>
      [] side = "left"   -> <<c[1] - 1, c[2]>>
      [] side = "right"  -> <<c[1] + 1, c[2]>>

Opposite(side) ==
    CASE side = "top"    -> "bottom"
      [] side = "bottom" -> "top"
      [] side = "left"   -> "right"
      [] side = "right"  -> "left"

\* A variant of placeWall that forgets the neighbouring cell.
placeWallUnmirrored(board, c, side, player) ==
    [board EXCEPT ![c].walls[side] = player]

\* A placeWall that rebuilds the walls of the cell from the new wall alone.
placeWallAlone(board, c, side, player) ==
    LET n == Across(c, side)
        own == [board EXCEPT ![c].walls =
                    [s \in WallSide |-> IF s = side THEN player ELSE Null]]
    IN  IF isValidCoordinate(n)
        THEN [own EXCEPT ![n].walls[Opposite(side)] = player]
        ELSE own

\* placeWall: the side of the cell, and the opposing side of the adjacent
\* cell if it exists.  It always overwrites.
placeWall(board, c, side, player) ==
    LET n == Across(c, side)
        own == [board EXCEPT ![c].walls[side] = player]
    IN  IF isValidCoordinate(n)
        THEN [own EXCEPT ![n].walls[Opposite(side)] = player]
        ELSE own

\* isBlocked(from, to): the wall slot of `from` towards `to`; any pair that
\* is not orthogonally adjacent is blocked.
\* A wall test that reads every wall as an opening and every opening as a
\* wall.
isBlockedInverted(board, from, to) ==
    IF to[1] = from[1] /\ to[2] = from[2] - 1 THEN board[from].walls["top"] = Null
    ELSE IF to[1] = from[1] /\ to[2] = from[2] + 1 THEN board[from].walls["bottom"] = Null
    ELSE IF to[1] = from[1] - 1 /\ to[2] = from[2] THEN board[from].walls["left"] = Null
    ELSE IF to[1] = from[1] + 1 /\ to[2] = from[2] THEN board[from].walls["right"] = Null
    ELSE TRUE

isBlocked(board, from, to) ==
    IF to[1] = from[1] /\ to[2] = from[2] - 1 THEN board[from].walls["top"] # Null
    ELSE IF to[1] = from[1] /\ to[2] = from[2] + 1 THEN board[from].walls["bottom"] # Null
    ELSE IF to[1] = from[1] - 1 /\ to[2] = from[2] THEN board[from].walls["left"] # Null
    ELSE IF to[1] = from[1] + 1 /\ to[2] = from[2] THEN board[from].walls["right"] # Null
    ELSE TRUE

\* The directions arrays of the BFS loops: Up, Down, Left, Right.
Directions == << <<0, -1>>, <<0, 1>>, <<-1, 0>>, <<1, 0>> >>

Step(c, d) == <<c[1] + d[1], c[2] + d[2]>>

\* Row-major order of the nested y/x loops and of board.forEach.
RowMajorIndex(c) == c[2] * BOARD_SIZE + c[1]

\* The cells of a set as the sequence the y/x loops visit them in.
RECURSIVE InRowMajor(_)
InRowMajor(S) ==
    IF S = {} THEN << >>
    ELSE LET first == CHOOSE c \in S : \A d \in S : RowMajorIndex(c) <= RowMajorIndex(d)
         IN  <<first>> \o InRowMajor(S \ {first})

PiecesOf(board, player) == {c \in Coordinate : board[c].occupant = player}

\* n is c moved by one of the four directions.
Adjacent(c, n) ==
    \/ n[1] = c[1] /\ (n[2] = c[2] - 1 \/ n[2] = c[2] + 1)
    \/ n[2] = c[2] /\ (n[1] = c[1] - 1 \/ n[1] = c[1] + 1)

\* The in-bounds cells the directions loop reaches from c.
Neighbours(c) == {n \in Coordinate : Adjacent(c, n)}

\* The queue loop shared by getReachableArea, checkGameEndCondition and
\* calculateLargestTerritory: from the cells just visited, visit every
\* adjacent cell that is in bounds, not wall-separated, empty and new.
RECURSIVE FloodFill(_, _, _)
FloodFill(board, frontier, visited) ==
    IF frontier = {} THEN visited
    ELSE LET next == {n \in Coordinate \ visited :
                        /\ board[n].occupant = Null
                        /\ \E c \in frontier :
                              Adjacent(c, n) /\ ~isBlocked(board, c, n)}
         IN  FloodFill(board, next, visited \cup next)

\* A flood that walks through walls.
getReachableAreaIgnoringWalls(board, player) ==
    FloodFill([c \in Coordinate |-> [board[c] EXCEPT !.walls = [s \in WallSide |-> Null]]],
              PiecesOf(board, player), PiecesOf(board, player))

\* getReachableArea: the visited set, seeded with every piece of the player.
getReachableArea(board, player) ==
    FloodFill(board, PiecesOf(board, player), PiecesOf(board, player))

\* checkGameEndCondition(board): the flood from the RED pieces; false as
\* soon as a visited cell has an unblocked neighbour occupied by BLUE.
\* App.tsx passes activePlayers as a second argument, which the function
\* does not take.
checkGameEndCondition(board) ==
    LET visited == FloodFill(board, PiecesOf(board, RED), PiecesOf(board, RED))
    IN  ~ \E n \in PiecesOf(board, BLUE) : \E c \in visited :
              Adjacent(c, n) /\ ~isBlocked(board, c, n)

\* calculateScores(board): the RED and BLUE entries only.
calculateScores(board) ==
    [p \in {RED, BLUE} |-> Cardinality(getReachableArea(board, p))]

\* calculateLargestTerritory: one flood per piece not in visitedGlobal, over
\* empty cells only; the maximum of the sizes.
RECURSIVE LargestTerritoryLoop(_, _, _, _)
LargestTerritoryLoop(board, pieces, visitedGlobal, maxTerritory) ==
    IF pieces = << >> THEN maxTerritory
    ELSE LET startPiece == Head(pieces)
         IN  IF startPiece \in visitedGlobal
             THEN LargestTerritoryLoop(board, Tail(pieces), visitedGlobal, maxTerritory)
             ELSE LET visitedLocal == FloodFill(board, {startPiece}, {startPiece})
                      currentSize == Cardinality(visitedLocal)
                  IN  LargestTerritoryLoop(board, Tail(pieces),
                          visitedGlobal \cup visitedLocal,
                          IF currentSize > maxTerritory THEN currentSize ELSE maxTerritory)

calculateLargestTerritory(board, player) ==
    LargestTerritoryLoop(board, InRowMajor(PiecesOf(board, player)), {}, 0)

\* getValidMoves: the breadth-first search of depth 2.  The queue holds
\* <<coord, dist>>; visited is the key set; validMoves the result list.
RECURSIVE ExpandDirections(_, _, _, _, _)
ExpandDirections(board, coord, dist, i, acc) ==
    IF i > 4 THEN acc
    ELSE LET nextCoord == Step(coord, Directions[i])
             take == /\ isValidCoordinate(nextCoord)
                     /\ ~isBlocked(board, coord, nextCoord)
                     /\ board[nextCoord].occupant = Null
                     /\ nextCoord \notin acc.visited
         IN  ExpandDirections(board, coord, dist, i + 1,
                 IF take
                 THEN [queue |-> Append(acc.queue, <<nextCoord, dist + 1>>),
                       visited |-> acc.visited \cup {nextCoord},
                       validMoves |-> Append(acc.validMoves, nextCoord)]
                 ELSE acc)

RECURSIVE ValidMovesLoop(_, _)
ValidMovesLoop(board, acc) ==
    IF acc.queue = << >> THEN acc.validMoves
    ELSE LET coord == Head(acc.queue)[1]
             dist == Head(acc.queue)[2]
             rest == [acc EXCEPT !.queue = Tail(acc.queue)]
         IN  IF dist >= 2
             THEN ValidMovesLoop(board, rest)
             ELSE ValidMovesLoop(board, ExpandDirections(board, coord, dist, 1, rest))

\* A move generation that does not see the walls.
getValidMovesThroughWalls(board, start) ==
    ValidMovesLoop([c \in Coordinate |->
                        [board[c] EXCEPT !.walls = [s \in WallSide |-> Null]]],
        [queue |-> << <<start, 0>> >>, visited |-> {start}, validMoves |-> <<start>>])

getValidMoves(board, start) ==
    ValidMovesLoop(board,
        [queue |-> << <<start, 0>> >>, visited |-> {start}, validMoves |-> <<start>>])

Range(seq) == {seq[i] : i \in 1 .. Len(seq)}

\* ------------------------------------------------------------------ state
VARIABLES
    gameState,      \* the GameState object of useState
    aiTimer,        \* the 500 ms timeout of the AI execution effect is scheduled
    endTurnTimer,   \* setTimeout(() => endTurn(), 300) calls not yet run
    turns,          \* turn ends so far (bounds the run)
    tickSource,     \* the setInterval tick sources running, and timerRef
    probe           \* inputs and result of the winner resolution on its own

vars == <<gameState, aiTimer, endTurnTimer, turns, tickSource, probe>>

\* No coordinate (selectedPiece / movedTo null, pieceX = -1).
NoCoordinate == <<-1, -1>>

AllPlayers == <<RED, BLUE, GREEN, YELLOW>>

InitialGameState ==
    [board |-> createInitialBoard,
     currentPlayer |-> RED,
     activePlayers |-> <<RED, BLUE>>,
     phase |-> PLACEMENT,
     turnTimer |-> TURN_TIME_LIMIT,
     winner |-> Null,
     scores |-> [p \in {RED, BLUE} |-> 0],
     placementQueue |-> << >>,
     selectedPiece |-> NoCoordinate,
     validMoves |-> << >>,
     movedTo |-> NoCoordinate,
     gameMode |-> Null,
     isAiThinking |-> FALSE]

NoProbe == [players |-> << >>, scores |-> << >>, territory |-> << >>, winner |-> Null]

\* ---------------------------------------------------------------- helpers
\* activePlayers.indexOf(current): 0-based, -1 when absent.
IndexOf(seq, x) ==
    IF \E i \in 1 .. Len(seq) : seq[i] = x
    THEN (CHOOSE i \in 1 .. Len(seq) : seq[i] = x /\ \A j \in 1 .. i - 1 : seq[j] # x) - 1
    ELSE -1

\* A variant of switchPlayer that keeps the player.
switchPlayerStay(current, activePlayers) == current

switchPlayer(current, activePlayers) ==
    LET idx == IndexOf(activePlayers, current)
        nextIdx == (idx + 1) % Len(activePlayers)
    IN  activePlayers[nextIdx + 1]

\* scores[p] || 0
ScoreOrZero(scores, p) == IF p \in DOMAIN scores THEN scores[p] ELSE 0

RECURSIVE MaxScoreLoop(_, _, _)
MaxScoreLoop(players, scores, maxScore) ==
    IF players = << >> THEN maxScore
    ELSE LET s == ScoreOrZero(scores, Head(players))
         IN  MaxScoreLoop(Tail(players), scores, IF s > maxScore THEN s ELSE maxScore)

\* candidates.forEach of the tie breaker; acc is
\* [maxTerritory, territoryWinner, tie].
RECURSIVE TieBreakLoop(_, _, _)
TieBreakLoop(candidates, territory, acc) ==
    IF candidates = << >> THEN acc
    ELSE LET p == Head(candidates)
             t == territory[p]
         IN  TieBreakLoop(Tail(candidates), territory,
                 IF t > acc.maxTerritory
                 THEN [maxTerritory |-> t, territoryWinner |-> p, tie |-> FALSE]
                 ELSE IF t = acc.maxTerritory
                      THEN [acc EXCEPT !.tie = TRUE]
                      ELSE acc)

\* A variant of the winner resolution that takes the first candidate.
ResolveWinnerFirstCandidate(activePlayers, scores, territory) ==
    LET maxScore == MaxScoreLoop(activePlayers, scores, -1)
        candidates == SelectSeq(activePlayers, LAMBDA p : ScoreOrZero(scores, p) = maxScore)
    IN  IF candidates = << >> THEN Null ELSE candidates[1]

\* The winner resolution of endTurn; territory[p] stands for
\* calculateLargestTerritory(prev.board, p).
ResolveWinner(activePlayers, scores, territory) ==
    LET maxScore == MaxScoreLoop(activePlayers, scores, -1)
        candidates == SelectSeq(activePlayers, LAMBDA p : ScoreOrZero(scores, p) = maxScore)
    IN  IF Len(candidates) = 1
        THEN candidates[1]
        ELSE LET r == TieBreakLoop(candidates, territory,
                          [maxTerritory |-> -1, territoryWinner |-> Null, tie |-> FALSE])
             IN  IF r.tie THEN DRAW ELSE r.territoryWinner

\* A turn change that keeps the selection of the turn that ended.
NextTurnKeepSelection(prev) ==
    [prev EXCEPT !.currentPlayer = switchPlayer(prev.currentPlayer, prev.activePlayers),
                 !.phase = ACTION_SELECT,
                 !.turnTimer = TURN_TIME_LIMIT,
                 !.isAiThinking = FALSE]

\* The state endTurn leaves when the game goes on.
NextTurn(prev) ==
    [prev EXCEPT !.currentPlayer = switchPlayer(prev.currentPlayer, prev.activePlayers),
                 !.phase = ACTION_SELECT,
                 !.turnTimer = TURN_TIME_LIMIT,
                 !.selectedPiece = NoCoordinate,
                 !.validMoves = << >>,
                 !.movedTo = NoCoordinate,
                 !.isAiThinking = FALSE]

\* The updater of endTurn.
endTurn(prev) ==
    IF checkGameEndCondition(prev.board)
    THEN LET scores == calculateScores(prev.board)
             winner == ResolveWinner(prev.activePlayers, scores,
                          [p \in Player |-> calculateLargestTerritory(prev.board, p)])
         IN  [prev EXCEPT !.phase = GAME_OVER,
                          !.winner = winner,
                          !.scores = scores,
                          !.isAiThinking = FALSE]
    ELSE NextTurn(prev)

\* The updater of handleRandomWallPlacement.  randomPiece is the piece
\* Math.random picks (NoCoordinate when the player has none), sides the
\* shuffled side list.
RECURSIVE FirstOpenSide(_, _, _)
FirstOpenSide(board, c, sides) ==
    IF sides = << >> THEN Null
    ELSE IF board[c].walls[Head(sides)] = Null THEN Head(sides)
    ELSE FirstOpenSide(board, c, Tail(sides))

\* A fallback that walls the first shuffled side, open or not.
handleRandomWallPlacementFirstSide(prev, randomPiece, sides) ==
    LET piece == IF prev.phase = ACTION_WALL /\ prev.movedTo # NoCoordinate
                 THEN prev.movedTo
                 ELSE randomPiece
    IN  IF piece = NoCoordinate
        THEN NextTurn(prev)
        ELSE LET newBoard == placeWall(prev.board, piece, Head(sides), prev.currentPlayer)
             IN  IF checkGameEndCondition(newBoard)
                 THEN [prev EXCEPT !.board = newBoard,
                                   !.phase = GAME_OVER,
                                   !.winner = Null,
                                   !.scores = calculateScores(newBoard),
                                   !.isAiThinking = FALSE]
                 ELSE [NextTurn(prev) EXCEPT !.board = newBoard]

handleRandomWallPlacement(prev, randomPiece, sides) ==
    LET piece == IF prev.phase = ACTION_WALL /\ prev.movedTo # NoCoordinate
                 THEN prev.movedTo
                 ELSE randomPiece
    IN  IF piece = NoCoordinate
        THEN NextTurn(prev)
        ELSE LET side == FirstOpenSide(prev.board, piece, sides)
                 newBoard == IF side = Null THEN prev.board
                             ELSE placeWall(prev.board, piece, side, prev.currentPlayer)
             IN  IF checkGameEndCondition(newBoard)
                 THEN [prev EXCEPT !.board = newBoard,
                                   !.phase = GAME_OVER,
                                   !.winner = Null,
                                   !.scores = calculateScores(newBoard),
                                   !.isAiThinking = FALSE]
                 ELSE [NextTurn(prev) EXCEPT !.board = newBoard]

\* No interval runs; timerRef holds none that does.
NoTickSource == [active |-> 0, live |-> FALSE, cleanup |-> FALSE]

\* clearInterval(timerRef.current): it stops the interval timerRef holds,
\* if that one still runs.
ClearTimerRef(t) ==
    IF t.live THEN [t EXCEPT !.active = t.active - 1, !.live = FALSE] ELSE t

\* The first two guards of handleCellClick.
ClickBlocked(gs) ==
    \/ gs.phase = GAME_OVER
    \/ gs.isAiThinking
    \/ gs.gameMode = PVAI /\ gs.currentPlayer = BLUE

\* The queue step shared by the human and the AI placement.
AfterPlacement(prev, newBoard) ==
    IF prev.placementQueue = << >>
    THEN [prev EXCEPT !.board = newBoard,
                      !.phase = ACTION_SELECT,
                      !.currentPlayer = RED,
                      !.turnTimer = TURN_TIME_LIMIT,
                      !.placementQueue = << >>]
    ELSE [prev EXCEPT !.board = newBoard,
                      !.currentPlayer = Head(prev.placementQueue),
                      !.placementQueue = Tail(prev.placementQueue)]

\* A handleCellClick whose move leaves the piece on its origin as well.
handleCellClickKeepOrigin(gs, c) ==
    IF ClickBlocked(gs) THEN gs
    ELSE IF gs.phase = PLACEMENT THEN
        IF gs.board[c].occupant = Null
        THEN AfterPlacement(gs, [gs.board EXCEPT ![c].occupant = gs.currentPlayer])
        ELSE gs
    ELSE IF gs.phase = ACTION_SELECT THEN
        IF gs.board[c].occupant = gs.currentPlayer
        THEN [gs EXCEPT !.selectedPiece = c,
                        !.validMoves = getValidMoves(gs.board, c),
                        !.phase = ACTION_MOVE]
        ELSE gs
    ELSE IF gs.phase = ACTION_MOVE THEN
        IF c \in Range(gs.validMoves) /\ gs.selectedPiece # NoCoordinate
        THEN [gs EXCEPT !.board = [gs.board EXCEPT ![c].occupant = gs.currentPlayer],
                        !.movedTo = c,
                        !.phase = ACTION_WALL]
        ELSE IF gs.board[c].occupant = gs.currentPlayer
        THEN [gs EXCEPT !.selectedPiece = c,
                        !.validMoves = getValidMoves(gs.board, c)]
        ELSE gs
    ELSE gs

\* A handleCellClick whose re-selection keeps the valid moves of the piece
\* selected before.
handleCellClickStaleMoves(gs, c) ==
    IF ClickBlocked(gs) THEN gs
    ELSE IF gs.phase = PLACEMENT THEN
        IF gs.board[c].occupant = Null
        THEN AfterPlacement(gs, [gs.board EXCEPT ![c].occupant = gs.currentPlayer])
        ELSE gs
    ELSE IF gs.phase = ACTION_SELECT THEN
        IF gs.board[c].occupant = gs.currentPlayer
        THEN [gs EXCEPT !.selectedPiece = c,
                        !.validMoves = getValidMoves(gs.board, c),
                        !.phase = ACTION_MOVE]
        ELSE gs
    ELSE IF gs.phase = ACTION_MOVE THEN
        IF c \in Range(gs.validMoves) /\ gs.selectedPiece # NoCoordinate
        THEN [gs EXCEPT !.board = [[gs.board EXCEPT ![gs.selectedPiece].occupant = Null]
                                      EXCEPT ![c].occupant = gs.currentPlayer],
                        !.movedTo = c,
                        !.phase = ACTION_WALL]
        ELSE IF gs.board[c].occupant = gs.currentPlayer
        THEN [gs EXCEPT !.selectedPiece = c]
        ELSE gs
    ELSE gs

\* A handleCellClick that selects a piece in ACTION_WALL as well.
handleCellClickMoveAgain(gs, c) ==
    IF ClickBlocked(gs) THEN gs
    ELSE IF gs.phase = PLACEMENT THEN
        IF gs.board[c].occupant = Null
        THEN AfterPlacement(gs, [gs.board EXCEPT ![c].occupant = gs.currentPlayer])
        ELSE gs
    ELSE IF gs.phase = ACTION_SELECT \/ gs.phase = ACTION_WALL THEN
        IF gs.board[c].occupant = gs.currentPlayer
        THEN [gs EXCEPT !.selectedPiece = c,
                        !.validMoves = getValidMoves(gs.board, c),
                        !.phase = ACTION_MOVE]
        ELSE gs
    ELSE IF gs.phase = ACTION_MOVE THEN
        IF c \in Range(gs.validMoves) /\ gs.selectedPiece # NoCoordinate
        THEN [gs EXCEPT !.board = [[gs.board EXCEPT ![gs.selectedPiece].occupant = Null]
                                      EXCEPT ![c].occupant = gs.currentPlayer],
                        !.movedTo = c,
                        !.phase = ACTION_WALL]
        ELSE IF gs.board[c].occupant = gs.currentPlayer
        THEN [gs EXCEPT !.selectedPiece = c,
                        !.validMoves = getValidMoves(gs.board, c)]
        ELSE gs
    ELSE gs

\* handleCellClick(x, y): the state it leaves (the same state when the
\* click is ignored).
handleCellClick(gs, c) ==
    IF ClickBlocked(gs) THEN gs
    ELSE IF gs.phase = PLACEMENT THEN
        IF gs.board[c].occupant = Null
        THEN AfterPlacement(gs, [gs.board EXCEPT ![c].occupant = gs.currentPlayer])
        ELSE gs
    ELSE IF gs.phase = ACTION_SELECT THEN
        IF gs.board[c].occupant = gs.currentPlayer
        THEN [gs EXCEPT !.selectedPiece = c,
                        !.validMoves = getValidMoves(gs.board, c),
                        !.phase = ACTION_MOVE]
        ELSE gs
    ELSE IF gs.phase = ACTION_MOVE THEN
        IF c \in Range(gs.validMoves) /\ gs.selectedPiece # NoCoordinate
        THEN [gs EXCEPT !.board = [[gs.board EXCEPT ![gs.selectedPiece].occupant = Null]
                                      EXCEPT ![c].occupant = gs.currentPlayer],
                        !.movedTo = c,
                        !.phase = ACTION_WALL]
        ELSE IF gs.board[c].occupant = gs.currentPlayer
        THEN [gs EXCEPT !.selectedPiece = c,
                        !.validMoves = getValidMoves(gs.board, c)]
        ELSE gs
    ELSE gs

\* Guards of handleWallClick without the test for the AI's turn.
WallClickAcceptedInAiTurn(gs, c) ==
    /\ gs.phase = ACTION_WALL
    /\ gs.movedTo # NoCoordinate
    /\ gs.movedTo = c

\* The guards of handleWallClick.
WallClickAccepted(gs, c) ==
    /\ gs.phase = ACTION_WALL
    /\ gs.movedTo # NoCoordinate
    /\ ~(gs.gameMode = PVAI /\ gs.currentPlayer = BLUE)
    /\ gs.movedTo = c

\* handleWallClick(x, y, side): placeWall, then endTurn on the new board.
\* A wall click that does not compare the clicked cell with movedTo.
handleWallClickAnyCell(gs, c, side) ==
    IF gs.phase = ACTION_WALL /\ gs.movedTo # NoCoordinate
            /\ ~(gs.gameMode = PVAI /\ gs.currentPlayer = BLUE)
    THEN endTurn([gs EXCEPT !.board = placeWall(gs.board, c, side, gs.currentPlayer)])
    ELSE gs

handleWallClick(gs, c, side) ==
    IF WallClickAccepted(gs, c)
    THEN endTurn([gs EXCEPT !.board = placeWall(gs.board, c, side, gs.currentPlayer)])
    ELSE gs

\* A handleUnselectPiece that leaves the valid moves in place.
handleUnselectPieceKeepMoves(gs) ==
    IF gs.phase # ACTION_MOVE THEN gs
    ELSE [gs EXCEPT !.phase = ACTION_SELECT,
                    !.selectedPiece = NoCoordinate]

handleUnselectPiece(gs) ==
    IF gs.phase # ACTION_MOVE THEN gs
    ELSE [gs EXCEPT !.phase = ACTION_SELECT,
                    !.selectedPiece = NoCoordinate,
                    !.validMoves = << >>]

handleStartGame(prev, mode, playerCount) ==
    LET activePlayers == SubSeq(AllPlayers, 1, playerCount)
        queue == activePlayers \o activePlayers
    IN  [prev EXCEPT !.gameMode = mode,
                     !.activePlayers = activePlayers,
                     !.currentPlayer = queue[1],
                     !.placementQueue = Tail(queue),
                     !.board = createInitialBoard,
                     !.phase = PLACEMENT,
                     !.scores = [p \in Range(activePlayers) |-> 0]]

resetGame == InitialGameState

\* The updater of the interval callback.
TimerTick(prev) ==
    IF prev.turnTimer <= 1
    THEN [prev EXCEPT !.turnTimer = 0]
    ELSE [prev EXCEPT !.turnTimer = prev.turnTimer - 1]

\* ---------------------------------------------------------------- aiUtils
applyWall(board, c, side, player) ==
    LET n == Across(c, side)
        own == [board EXCEPT ![c].walls[side] = player]
    IN  IF isValidCoordinate(n)
        THEN [own EXCEPT ![n].walls[Opposite(side)] = player]
        ELSE own

\* A removeWall that clears the side of the cell alone.
removeWallOwnSide(board, c, side) ==
    [board EXCEPT ![c].walls[side] = Null]

removeWall(board, c, side) ==
    LET n == Across(c, side)
        own == [board EXCEPT ![c].walls[side] = Null]
    IN  IF isValidCoordinate(n)
        THEN [own EXCEPT ![n].walls[Opposite(side)] = Null]
        ELSE own

\* evaluateBoardState times ten: aiReach - opReach * 1.2, kept an integer.
evaluateBoardState10(board, aiPlayer, opponent) ==
    10 * Cardinality(getReachableArea(board, aiPlayer))
        - 12 * Cardinality(getReachableArea(board, opponent))

\* The board of the search after DO MOVE.
DoMove(board, piece, move, aiPlayer) ==
    [[board EXCEPT ![piece].occupant = Null] EXCEPT ![move].occupant = aiPlayer]

\* A variant of the loops that also evaluates the walled sides.
EvaluatedMovesAnySide(board, aiPlayer, opponent) ==
    UNION {
        UNION {
            {[from |-> piece, to |-> move, wallSide |-> side,
              score10 |-> evaluateBoardState10(
                              applyWall(DoMove(board, piece, move, aiPlayer),
                                        move, side, aiPlayer),
                              aiPlayer, opponent)] :
                side \in WallSide} :
            move \in Range(getValidMoves(board, piece))} :
        piece \in PiecesOf(board, aiPlayer)}

\* Every (piece, move, side) the loops of calculateBestMove evaluate, with
\* its score times ten.
EvaluatedMoves(board, aiPlayer, opponent) ==
    UNION {
        UNION {
            {[from |-> piece, to |-> move, wallSide |-> side,
              score10 |-> evaluateBoardState10(
                              applyWall(DoMove(board, piece, move, aiPlayer),
                                        move, side, aiPlayer),
                              aiPlayer, opponent)] :
                side \in {sd \in WallSide : board[move].walls[sd] = Null}} :
            move \in Range(getValidMoves(board, piece))} :
        piece \in PiecesOf(board, aiPlayer)}

\* calculateBestMove: the moves it can return, {} standing for null.  A
\* move is kept when score + randomBias exceeds the running maximum, with
\* randomBias in [0, 0.5): some draw returns a move exactly when its score
\* is within 0.5 of the best score.
calculateBestMove(originalBoard, aiPlayer, opponent) ==
    LET evaluated == EvaluatedMoves(originalBoard, aiPlayer, opponent)
    IN  {m \in evaluated : \A o \in evaluated : m.score10 + 5 > o.score10}

\* The search on the objects it works on.  A board is a map from cells to
\* cell objects; a cell object holds an occupant and a reference to a
\* walls object; the store holds both kinds of object by reference.
OriginalRef(c) == <<"original", c>>
WorkingRef(c) == <<"working", c>>

\* The store that holds the board given to the search.
StoreOf(originalBoard) ==
    [cell  |-> [r \in {OriginalRef(c) : c \in Coordinate} |->
                    [occupant |-> originalBoard[r[2]].occupant, walls |-> r]],
     walls |-> [r \in {OriginalRef(c) : c \in Coordinate} |->
                    originalBoard[r[2]].walls]]

OriginalCells == [c \in Coordinate |-> OriginalRef(c)]
WorkingCells == [c \in Coordinate |-> WorkingRef(c)]

\* The board a map of cell objects stands for.
BoardAt(store, cells) ==
    [c \in Coordinate |->
        [occupant |-> store.cell[cells[c]].occupant,
         walls |-> store.walls[store.cell[cells[c]].walls]]]

\* deepCloneBoard: a new cell object and a new walls object for every cell.
deepCloneBoard(store, cells) ==
    [cell  |-> store.cell @@
            [r \in {WorkingRef(c) : c \in Coordinate} |->
                [occupant |-> store.cell[cells[r[2]]].occupant, walls |-> r]],
     walls |-> store.walls @@
            [r \in {WorkingRef(c) : c \in Coordinate} |->
                store.walls[store.cell[cells[r[2]]].walls]]]

\* board[y][x].occupant = v
SetOccupant(store, cells, c, v) ==
    [store EXCEPT !.cell[cells[c]].occupant = v]

\* board[y][x].walls[side] = v
SetWall(store, cells, c, side, v) ==
    [store EXCEPT !.walls[store.cell[cells[c]].walls][side] = v]

\* applyWall and removeWall on the objects: the side of the cell, then the
\* opposing side of the adjacent cell if it exists.
WriteWall(store, cells, c, side, v) ==
    LET n == Across(c, side)
        own == SetWall(store, cells, c, side, v)
    IN  IF isValidCoordinate(n)
        THEN SetWall(own, cells, n, Opposite(side), v)
        ELSE own

possibleWalls == <<"top", "right", "bottom", "left">>

\* A wall loop that leaves out UNDO WALL.
RECURSIVE WallLoopNoUndo(_, _, _, _, _)
WallLoopNoUndo(store, cells, move, aiPlayer, i) ==
    IF i > Len(possibleWalls) THEN store
    ELSE IF BoardAt(store, cells)[move].walls[possibleWalls[i]] # Null
    THEN WallLoopNoUndo(store, cells, move, aiPlayer, i + 1)
    ELSE WallLoopNoUndo(WriteWall(store, cells, move, possibleWalls[i], aiPlayer),
                        cells, move, aiPlayer, i + 1)

\* The loop over possibleWalls: skip a walled side, else DO WALL, evaluate,
\* UNDO WALL.
RECURSIVE WallLoop(_, _, _, _, _)
WallLoop(store, cells, move, aiPlayer, i) ==
    IF i > Len(possibleWalls) THEN store
    ELSE IF BoardAt(store, cells)[move].walls[possibleWalls[i]] # Null
    THEN WallLoop(store, cells, move, aiPlayer, i + 1)
    ELSE LET done == WriteWall(store, cells, move, possibleWalls[i], aiPlayer)
             undone == WriteWall(done, cells, move, possibleWalls[i], Null)
         IN  WallLoop(undone, cells, move, aiPlayer, i + 1)

\* The loop over the moves of a piece: DO MOVE, the wall loop, UNDO MOVE.
RECURSIVE MoveLoop(_, _, _, _, _, _)
MoveLoop(store, cells, piece, moves, aiPlayer, i) ==
    IF i > Len(moves) THEN store
    ELSE LET moved == SetOccupant(SetOccupant(store, cells, piece, Null),
                                  cells, moves[i], aiPlayer)
             walled == WallLoop(moved, cells, moves[i], aiPlayer, 1)
             back == SetOccupant(SetOccupant(walled, cells, moves[i], Null),
                                 cells, piece, aiPlayer)
         IN  MoveLoop(back, cells, piece, moves, aiPlayer, i + 1)

\* The loop over aiPieces; the moves of a piece are read from the working
\* copy as it is when the piece comes up.
RECURSIVE PieceLoop(_, _, _, _, _)
PieceLoop(store, cells, aiPieces, aiPlayer, i) ==
    IF i > Len(aiPieces) THEN store
    ELSE PieceLoop(MoveLoop(store, cells, aiPieces[i],
                            getValidMoves(BoardAt(store, cells), aiPieces[i]),
                            aiPlayer, 1),
                   cells, aiPieces, aiPlayer, i + 1)

\* The store when calculateBestMove returns: the board given under
\* OriginalCells, the working copy under WorkingCells.
SearchStore(originalBoard, aiPlayer) ==
    LET cloned == deepCloneBoard(StoreOf(originalBoard), OriginalCells)
        aiPieces == InRowMajor(PiecesOf(BoardAt(cloned, WorkingCells), aiPlayer))
    IN  PieceLoop(cloned, WorkingCells, aiPieces, aiPlayer, 1)

\* ----------------------------------------------------------------- effects
\* A timeout trigger that never calls handleRandomWallPlacement.
TimeoutDueNever(gs) == FALSE

\* The timeout trigger effect calls handleRandomWallPlacement.
TimeoutDue(gs) ==
    gs.turnTimer = 0 /\ gs.phase # GAME_OVER /\ gs.phase # PLACEMENT

\* The AI trigger effect sets isAiThinking.
AiTriggerDue(gs) ==
    /\ gs.gameMode = PVAI
    /\ gs.currentPlayer = BLUE
    /\ ~gs.isAiThinking
    /\ gs.phase \in {ACTION_SELECT, PLACEMENT}

\* React runs the effects of a render before it handles the next event or
\* timer callback.
EffectDue == TimeoutDue(gameState) \/ AiTriggerDue(gameState)

\* A cleanup that clears the scheduled timeout and schedules none.
RearmNever(gs, fired) == FALSE

\* The AI execution effect: while isAiThinking is set, every change of
\* isAiThinking, phase or board clears the scheduled timeout and schedules
\* a new one; clearing isAiThinking clears it for good.
Rearm(gs, fired) ==
    IF ~gs.isAiThinking THEN FALSE
    ELSE IF \/ gs.isAiThinking # gameState.isAiThinking
            \/ gs.phase # gameState.phase
            \/ gs.board # gameState.board
         THEN TRUE
         ELSE IF fired THEN FALSE ELSE aiTimer

\* A timer effect without the cleanup.
TimerEffectNoCleanup(gs, t) ==
    IF /\ gs.phase = gameState.phase
       /\ gs.currentPlayer = gameState.currentPlayer
       /\ gs.gameMode = gameState.gameMode
    THEN t
    ELSE IF gs.phase = GAME_OVER \/ gs.phase = PLACEMENT \/ gs.gameMode = Null
         THEN [t EXCEPT !.cleanup = FALSE]
         ELSE [active |-> t.active + 1, live |-> TRUE, cleanup |-> TRUE]

\* A timer effect that starts its interval in every phase.
TimerEffectNoPause(gs, t) ==
    IF /\ gs.phase = gameState.phase
       /\ gs.currentPlayer = gameState.currentPlayer
       /\ gs.gameMode = gameState.gameMode
    THEN t
    ELSE LET cleaned == IF t.cleanup THEN ClearTimerRef(t) ELSE t
         IN  [active |-> cleaned.active + 1, live |-> TRUE, cleanup |-> TRUE]

\* The timer effect of the render that shows gs, on the tick sources t.
\* When phase, currentPlayer or gameMode changed, the cleanup of the last
\* run (if that run returned one) clears the interval timerRef holds; the
\* effect then returns early in GAME_OVER, in PLACEMENT and without a game
\* mode, and otherwise starts an interval and stores it in timerRef.
TimerEffect(gs, t) ==
    IF /\ gs.phase = gameState.phase
       /\ gs.currentPlayer = gameState.currentPlayer
       /\ gs.gameMode = gameState.gameMode
    THEN t
    ELSE LET cleaned == IF t.cleanup THEN ClearTimerRef(t) ELSE t
         IN  IF gs.phase = GAME_OVER \/ gs.phase = PLACEMENT \/ gs.gameMode = Null
             THEN [cleaned EXCEPT !.cleanup = FALSE]
             ELSE [active |-> cleaned.active + 1, live |-> TRUE, cleanup |-> TRUE]

\* The render after a state update: gs is shown and the effects run; t
\* are the tick sources the updater left.
UpdateWith(gs, fired, t) ==
    /\ gameState' = gs
    /\ aiTimer' = Rearm(gs, fired)
    /\ tickSource' = TimerEffect(gs, t)

Update(gs, fired) == UpdateWith(gs, fired, tickSource)

\* The StartScreen covers the board while gameMode is null.
InGame == gameState.gameMode # Null

EmptyCells(board) == InRowMajor({c \in Coordinate : board[c].occupant = Null})

FirstEmptyCells(board) ==
    LET e == EmptyCells(board)
    IN  {e[i] : i \in 1 .. (IF Len(e) < MaxPlaceChoice THEN Len(e) ELSE MaxPlaceChoice)}

\* The cells a click is tried on.
ClickTargets ==
    IF gameState.phase = PLACEMENT
    THEN FirstEmptyCells(gameState.board)
            \cup {c \in Coordinate : gameState.board[c].occupant # Null}
    ELSE Coordinate

\* The cells a wall click is tried on: in ACTION_WALL the moved-to cell and
\* one other cell; in the other phases, where every wall click is ignored,
\* one cell. Every side is tried on them: handleWallClick takes the side as
\* an argument and does not read its wall (the Cell view draws its click
\* targets on the sides without a wall).
WallClickTargets ==
    IF gameState.phase = ACTION_WALL
    THEN {gameState.movedTo, CHOOSE c \in Coordinate : c # gameState.movedTo}
            \cap Coordinate
    ELSE {<<0, 0>>}

\* The outcomes of the shuffle in handleRandomWallPlacement.
SideOrders ==
    {o \in [1 .. 4 -> WallSide] : \A i, j \in 1 .. 4 : i # j => o[i] # o[j]}

\* ----------------------------------------------------------------- actions
Init ==
    /\ gameState = InitialGameState
    /\ aiTimer = FALSE
    /\ endTurnTimer = 0
    /\ turns = 0
    /\ tickSource = NoTickSource
    /\ probe = NoProbe

\* StartScreen onStart.
StartGame(mode, playerCount) ==
    /\ ~InGame
    /\ ~EffectDue
    /\ Update(handleStartGame(gameState, mode, playerCount), FALSE)
    /\ UNCHANGED <<endTurnTimer, turns, probe>>

\* Board onCellClick: placePiece, selectPiece, movePieceTo.
HandleCellClick(c) ==
    /\ InGame
    /\ ~EffectDue
    /\ gameState.phase = ACTION_SELECT => turns < MaxTurns
    /\ Update(handleCellClick(gameState, c), FALSE)
    /\ UNCHANGED <<endTurnTimer, turns, probe>>

\* Board onWallClick: placeWall.
HandleWallClick(c, side) ==
    /\ InGame
    /\ ~EffectDue
    /\ Update(handleWallClick(gameState, c, side), FALSE)
    /\ turns' = IF WallClickAccepted(gameState, c) THEN turns + 1 ELSE turns
    /\ UNCHANGED <<endTurnTimer, probe>>

\* Controls onUnselect.
UnselectPiece ==
    /\ InGame
    /\ ~EffectDue
    /\ Update(handleUnselectPiece(gameState), FALSE)
    /\ UNCHANGED <<endTurnTimer, turns, probe>>

\* Controls onReset.
ResetGame ==
    /\ ~EffectDue
    /\ Update(resetGame, FALSE)
    /\ UNCHANGED <<endTurnTimer, turns, probe>>

\* A tick of an interval the timer effect started and nothing has cleared
\* since.  Its first tick comes 1000 ms after the last change of phase or
\* player, after every AI callback scheduled by then (500 ms and 300 ms).
\* The updater of the tick that takes the timer to zero clears the
\* interval timerRef holds.
Tick ==
    /\ tickSource.active > 0
    /\ ~EffectDue
    /\ ~aiTimer /\ endTurnTimer = 0
    /\ turns < MaxTurns
    /\ UpdateWith(TimerTick(gameState), FALSE,
                  IF gameState.turnTimer <= 1 THEN ClearTimerRef(tickSource)
                  ELSE tickSource)
    /\ UNCHANGED <<endTurnTimer, turns, probe>>

\* The piece Math.random picks in handleRandomWallPlacement: none is drawn
\* when the moved-to cell is used or the player has no piece.
RandomPieces(gs) ==
    IF \/ gs.phase = ACTION_WALL /\ gs.movedTo # NoCoordinate
       \/ PiecesOf(gs.board, gs.currentPlayer) = {}
    THEN {NoCoordinate}
    ELSE PiecesOf(gs.board, gs.currentPlayer)

\* One shuffle for every side the shuffled loop can end on.
ShufflesFor(gs, randomPiece) ==
    LET piece == IF gs.phase = ACTION_WALL /\ gs.movedTo # NoCoordinate
                 THEN gs.movedTo ELSE randomPiece
    IN  IF piece = NoCoordinate
        THEN {CHOOSE o \in SideOrders : TRUE}
        ELSE {CHOOSE o \in SideOrders : FirstOpenSide(gs.board, piece, o) = s :
                s \in {FirstOpenSide(gs.board, piece, o) : o \in SideOrders}}

\* The timeout trigger effect.
Timeout ==
    /\ TimeoutDue(gameState)
    /\ \E randomPiece \in RandomPieces(gameState) :
       \E o \in ShufflesFor(gameState, randomPiece) :
            Update(handleRandomWallPlacement(gameState, randomPiece, o), FALSE)
    /\ turns' = turns + 1
    /\ UNCHANGED <<endTurnTimer, probe>>

\* The AI trigger effect.
AiTrigger ==
    /\ AiTriggerDue(gameState)
    /\ ~TimeoutDue(gameState)
    /\ gameState.phase = ACTION_SELECT => turns < MaxTurns
    /\ Update([gameState EXCEPT !.isAiThinking = TRUE], FALSE)
    /\ UNCHANGED <<endTurnTimer, turns, probe>>

\* The updater of the AI placement; choice is emptyCells[random index].
AiPlacement(prev, choice) ==
    [AfterPlacement(prev, [prev.board EXCEPT ![choice].occupant = BLUE])
        EXCEPT !.isAiThinking = FALSE]

\* An updater that stores the cell the piece left as movedTo.
AiApplyMoveFromCell(prev, bestMove) ==
    [prev EXCEPT !.board = placeWall(DoMove(prev.board, bestMove.from, bestMove.to, BLUE),
                                     bestMove.to, bestMove.wallSide, BLUE),
                 !.phase = ACTION_WALL,
                 !.movedTo = bestMove.from]

\* The updater that applies bestMove.
AiApplyMove(prev, bestMove) ==
    [prev EXCEPT !.board = placeWall(DoMove(prev.board, bestMove.from, bestMove.to, BLUE),
                                     bestMove.to, bestMove.wallSide, BLUE),
                 !.phase = ACTION_WALL,
                 !.movedTo = bestMove.to]

\* The callback of the AI execution effect (500 ms).  It runs after a
\* pending delayed endTurn (300 ms), which was scheduled no later.
AiTimerFire ==
    /\ aiTimer
    /\ endTurnTimer = 0
    /\ ~EffectDue
    /\ IF gameState.phase = PLACEMENT
       THEN /\ IF EmptyCells(gameState.board) = << >>
               THEN Update(gameState, TRUE)
               ELSE \E choice \in FirstEmptyCells(gameState.board) :
                        Update(AiPlacement(gameState, choice), TRUE)
            /\ UNCHANGED <<endTurnTimer, turns>>
       ELSE LET moves == calculateBestMove(gameState.board, BLUE, RED)
            IN  IF moves # {}
                THEN /\ \E bestMove \in moves :
                            Update(AiApplyMove(gameState, bestMove), TRUE)
                     /\ endTurnTimer' = endTurnTimer + 1
                     /\ UNCHANGED turns
                ELSE /\ Update(endTurn(gameState), TRUE)
                     /\ turns' = turns + 1
                     /\ UNCHANGED endTurnTimer
    /\ UNCHANGED probe

\* setTimeout(() => endTurn(), 300) after an AI move; nothing cancels it.
EndTurnTimerFire ==
    /\ endTurnTimer > 0
    /\ ~EffectDue
    /\ Update(endTurn(gameState), FALSE)
    /\ endTurnTimer' = endTurnTimer - 1
    /\ turns' = turns + 1
    /\ UNCHANGED probe

Next ==
    \/ \E mode \in GameMode, playerCount \in 2 .. MaxPlayerCount :
            StartGame(mode, playerCount)
    \/ \E c \in ClickTargets : HandleCellClick(c)
    \/ \E c \in WallClickTargets, side \in WallSide : HandleWallClick(c, side)
    \/ UnselectPiece
    \/ ResetGame
    \/ Tick
    \/ Timeout
    \/ AiTrigger
    \/ AiTimerFire
    \/ EndTurnTimerFire

Spec == Init /\ [][Next]_vars

\* A three-player game late in its play.  RED, BLUE and GREEN placed their
\* pieces on the first six cells in row-major order; in each of the seven
\* rounds since, every player selected a piece, left it on its cell and
\* walled an open side of that cell; RED has just ended its eighth turn in
\* the same way.  LatePlay lists the walls in the order they were placed.
LatePlay ==
    << <<<<0, 0>>, "top", RED>>,    <<<<1, 0>>, "top", BLUE>>,    <<<<2, 0>>, "top", GREEN>>,
       <<<<0, 0>>, "right", RED>>,  <<<<1, 0>>, "right", BLUE>>,  <<<<2, 0>>, "right", GREEN>>,
       <<<<0, 0>>, "bottom", RED>>, <<<<1, 0>>, "bottom", BLUE>>, <<<<2, 0>>, "bottom", GREEN>>,
       <<<<0, 0>>, "left", RED>>,   <<<<1, 1>>, "right", BLUE>>,  <<<<2, 1>>, "right", GREEN>>,
       <<<<0, 1>>, "bottom", RED>>, <<<<1, 1>>, "bottom", BLUE>>, <<<<2, 1>>, "bottom", GREEN>>,
       <<<<0, 1>>, "left", RED>> >>

LatePieces ==
    [c \in Coordinate |->
        IF c \in {<<0, 0>>, <<0, 1>>} THEN RED
        ELSE IF c \in {<<1, 0>>, <<1, 1>>} THEN BLUE
        ELSE IF c \in {<<2, 0>>, <<2, 1>>} THEN GREEN
        ELSE Null]

RECURSIVE PlayWalls(_, _)
PlayWalls(board, play) ==
    IF play = << >> THEN board
    ELSE PlayWalls(placeWall(board, Head(play)[1], Head(play)[2], Head(play)[3]),
                   Tail(play))

LateBoard ==
    PlayWalls([c \in Coordinate |->
                    [createInitialBoard[c] EXCEPT !.occupant = LatePieces[c]]],
              LatePlay)

\* The state after that play: BLUE to select, the interval of the turn
\* running, no AI callback pending.
InitLate ==
    /\ gameState = [handleStartGame(InitialGameState, PVP, 3) EXCEPT
                        !.board = LateBoard,
                        !.phase = ACTION_SELECT,
                        !.currentPlayer = BLUE,
                        !.placementQueue = << >>]
    /\ aiTimer = FALSE
    /\ endTurnTimer = 0
    /\ turns = 0
    /\ tickSource = [active |-> 1, live |-> TRUE, cleanup |-> TRUE]
    /\ probe = NoProbe

\* The game from that state on, for MaxTurns more turns.
SpecLate == InitLate /\ [][Next]_vars

\* What React and the event loop run without a user: the effects after a
\* render and the callbacks that are due (the 500 ms AI timeout, the 300 ms
\* endTurn timeout, the 1000 ms interval).
Scheduled == AiTrigger \/ AiTimerFire \/ EndTurnTimerFire \/ Timeout \/ Tick

\* Some effect or callback is due: the guards of the five actions.
ScheduledDue ==
    \/ /\ AiTriggerDue(gameState) /\ ~TimeoutDue(gameState)
       /\ gameState.phase = ACTION_SELECT => turns < MaxTurns
    \/ aiTimer /\ endTurnTimer = 0 /\ ~EffectDue
    \/ endTurnTimer > 0 /\ ~EffectDue
    \/ TimeoutDue(gameState)
    \/ /\ tickSource.active > 0
       /\ ~EffectDue
       /\ ~aiTimer /\ endTurnTimer = 0
       /\ turns < MaxTurns

\* WF_vars(Scheduled), with ENABLED <<Scheduled>>_vars written as the state
\* predicate ScheduledDue: an effect or callback that stays due is run; a
\* user command need never come.
Fairness == []<>(~ScheduledDue) \/ []<><<Scheduled>>_vars

SpecLive == Spec /\ Fairness

\* ------------------------------------------- winner resolution on its own
\* Scores and largest territories tried by the winner resolution.
MaxProbeValue == 3

Pending == "PENDING"

\* The winner resolution of endTurn applied to every choice of 2..4 active
\* players, their scores and their largest territories (a territory is part
\* of the reachable area, so never larger than the score).
InitWinner ==
    /\ gameState = InitialGameState
    /\ aiTimer = FALSE
    /\ endTurnTimer = 0
    /\ turns = 0
    /\ tickSource = NoTickSource
    /\ \E n \in 2 .. Len(AllPlayers) :
        LET players == SubSeq(AllPlayers, 1, n)
        IN  \E scores \in [Range(players) -> 0 .. MaxProbeValue] :
            \E territory \in [Range(players) -> 0 .. MaxProbeValue] :
                /\ \A p \in Range(players) : territory[p] <= scores[p]
                /\ probe = [players |-> players, scores |-> scores,
                            territory |-> territory, winner |-> Pending]

ResolveProbe ==
    /\ probe.winner = Pending
    /\ probe' = [probe EXCEPT
                    !.winner = ResolveWinner(probe.players, probe.scores, probe.territory)]
    /\ UNCHANGED <<gameState, aiTimer, endTurnTimer, turns, tickSource>>

SpecWinner == InitWinner /\ [][ResolveProbe]_vars

\* ------------------------------------- board functions on their own
\* Cells, in row-major order, on which pieces are put.
MaxProbeCells == 4
\* Cells, in row-major order, whose sides are walled.
MaxWallCells == 3
\* Walls put on a tried board.
MaxProbeWalls == 4

ProbeCells == {c \in Coordinate : RowMajorIndex(c) < MaxProbeCells}

WallCells == {c \in Coordinate : RowMajorIndex(c) < MaxWallCells}

ProbePlayers == {RED, BLUE}

\* The board functions are tried on boards built from the empty board with
\* the program's own steps: up to two pieces for each of RED and BLUE and
\* walls set by placeWall.
InitBoard ==
    /\ gameState = InitialGameState
    /\ aiTimer = FALSE
    /\ endTurnTimer = 0
    /\ turns = 0
    /\ tickSource = NoTickSource
    /\ probe = [board |-> createInitialBoard, walls |-> 0, applied |-> FALSE,
                validMoves |-> << >>, reach |-> << >>, largest |-> << >>,
                best |-> {}, fallback |-> {}, walled |-> << >>, undone |-> << >>,
                given |-> << >>, working |-> << >>]

ProbePlace(c, p) ==
    /\ ~probe.applied
    /\ probe.board[c].occupant = Null
    /\ Cardinality(PiecesOf(probe.board, p)) < 2
    /\ probe' = [probe EXCEPT !.board[c].occupant = p]
    /\ UNCHANGED <<gameState, aiTimer, endTurnTimer, turns, tickSource>>

ProbeWall(c, side) ==
    /\ ~probe.applied
    /\ probe.walls < MaxProbeWalls
    /\ probe.board[c].walls[side] = Null
    /\ probe' = [probe EXCEPT !.board = placeWall(probe.board, c, side, RED),
                              !.walls = probe.walls + 1]
    /\ UNCHANGED <<gameState, aiTimer, endTurnTimer, turns, tickSource>>

\* getValidMoves from every cell, getReachableArea and
\* calculateLargestTerritory of both players, on the board built.
ProbeApply ==
    /\ ~probe.applied
    /\ probe' = [probe EXCEPT
            !.applied = TRUE,
            !.validMoves = [c \in Coordinate |-> getValidMoves(probe.board, c)],
            !.reach = [p \in ProbePlayers |-> getReachableArea(probe.board, p)],
            !.largest = [p \in ProbePlayers |-> calculateLargestTerritory(probe.board, p)]]
    /\ UNCHANGED <<gameState, aiTimer, endTurnTimer, turns, tickSource>>

\* calculateBestMove for BLUE against RED, on the board built.
ProbeApplyAi ==
    /\ ~probe.applied
    /\ probe' = [probe EXCEPT
            !.applied = TRUE,
            !.best = calculateBestMove(probe.board, BLUE, RED)]
    /\ UNCHANGED <<gameState, aiTimer, endTurnTimer, turns, tickSource>>

NextBoard ==
    \/ \E c \in ProbeCells, p \in ProbePlayers : ProbePlace(c, p)
    \/ \E c \in WallCells, side \in WallSide : ProbeWall(c, side)
    \/ ProbeApply

SpecBoard == InitBoard /\ [][NextBoard]_vars

NextAi ==
    \/ \E c \in ProbeCells, p \in ProbePlayers : ProbePlace(c, p)
    \/ \E c \in WallCells, side \in WallSide : ProbeWall(c, side)
    \/ ProbeApplyAi

SpecAi == InitBoard /\ [][NextAi]_vars

\* The cells whose sides the search's wall step is tried on: the first
\* cells of the top row and the bottom right corner.
UndoCells == ProbeCells \cup {<<BOARD_SIZE - 1, BOARD_SIZE - 1>>}

\* The wall step of the search on the board built: applyWall of an open
\* side for BLUE, then removeWall of the same side.
ProbeApplyUndo(c, side) ==
    /\ ~probe.applied
    /\ probe.board[c].walls[side] = Null
    /\ probe' = [probe EXCEPT
            !.applied = TRUE,
            !.walled = applyWall(probe.board, c, side, BLUE),
            !.undone = removeWall(applyWall(probe.board, c, side, BLUE), c, side)]
    /\ UNCHANGED <<gameState, aiTimer, endTurnTimer, turns, tickSource>>

NextUndo ==
    \/ \E c \in ProbeCells : ProbePlace(c, BLUE)
    \/ \E c \in WallCells, side \in WallSide : ProbeWall(c, side)
    \/ \E c \in UndoCells, side \in WallSide : ProbeApplyUndo(c, side)

SpecUndo == InitBoard /\ [][NextUndo]_vars

\* calculateBestMove for BLUE on the board built: the board it was given
\* and its working copy, as they are when it returns.
ProbeApplySearch ==
    /\ ~probe.applied
    /\ LET store == SearchStore(probe.board, BLUE)
       IN  probe' = [probe EXCEPT
                !.applied = TRUE,
                !.given = BoardAt(store, OriginalCells),
                !.working = BoardAt(store, WorkingCells)]
    /\ UNCHANGED <<gameState, aiTimer, endTurnTimer, turns, tickSource>>

NextSearch ==
    \/ \E c \in ProbeCells, p \in ProbePlayers : ProbePlace(c, p)
    \/ \E c \in WallCells, side \in WallSide : ProbeWall(c, side)
    \/ ProbeApplySearch

SpecSearch == InitBoard /\ [][NextSearch]_vars

\* A two-player game in an action phase on the board built, its turn timer
\* run out.  The walls of the board are RED's and the player timed out is
\* BLUE, so that the owner of the fallback's wall shows.
TimedOut(board, phase, player, piece) ==
    [InitialGameState EXCEPT
        !.gameMode = PVP,
        !.board = board,
        !.phase = phase,
        !.currentPlayer = player,
        !.turnTimer = 0,
        !.selectedPiece = IF phase = ACTION_SELECT THEN NoCoordinate ELSE piece,
        !.validMoves = IF phase = ACTION_SELECT THEN << >>
                       ELSE getValidMoves(board, piece),
        !.movedTo = IF phase = ACTION_WALL THEN piece ELSE NoCoordinate]

\* One shuffle for every side the shuffled list can begin with.
Rotations ==
    {<<"top", "right", "bottom", "left">>, <<"right", "bottom", "left", "top">>,
     <<"bottom", "left", "top", "right">>, <<"left", "top", "right", "bottom">>}

\* The timeout trigger effect on such a game: every state
\* handleRandomWallPlacement can leave, for every piece drawn and every
\* side the shuffle can make the first open one.
ProbeApplyTimeout(phase, player, piece) ==
    /\ ~probe.applied
    /\ phase = ACTION_SELECT => piece = NoCoordinate
    /\ phase # ACTION_SELECT => piece \in PiecesOf(probe.board, player)
    /\ LET gs == TimedOut(probe.board, phase, player, piece)
       IN  /\ TimeoutDue(gs)
           /\ gameState' = gs
           /\ probe' = [probe EXCEPT
                !.applied = TRUE,
                !.fallback = UNION {{handleRandomWallPlacement(gs, rp, o) :
                                        o \in Rotations} :
                                    rp \in RandomPieces(gs)}]
    /\ UNCHANGED <<aiTimer, endTurnTimer, turns, tickSource>>

NextTimeout ==
    \/ \E c \in ProbeCells, p \in ProbePlayers : ProbePlace(c, p)
    \/ \E c \in WallCells, side \in WallSide : ProbeWall(c, side)
    \/ \E phase \in {ACTION_SELECT, ACTION_MOVE, ACTION_WALL},
            piece \in Coordinate \cup {NoCoordinate} :
                ProbeApplyTimeout(phase, BLUE, piece)

SpecTimeout == InitBoard /\ [][NextTimeout]_vars

\* ------------------------------------------------------------------ claims
ActionPhases == {ACTION_SELECT, ACTION_MOVE, ACTION_WALL}

\* C1: the phase changes only along the specified state machine:
\* PLACEMENT -> ACTION_SELECT on the last placement, ACTION_SELECT ->
\* ACTION_MOVE, ACTION_MOVE -> ACTION_WALL, ACTION_MOVE -> ACTION_SELECT,
\* ACTION_WALL -> ACTION_SELECT or GAME_OVER, any action phase ->
\* ACTION_SELECT or GAME_OVER on a timeout, any phase -> PLACEMENT.
C1_PhaseStep ==
    LET p == gameState.phase
        q == gameState'.phase
    IN  \/ q = p
        \/ q = PLACEMENT
        \/ p = PLACEMENT /\ q = ACTION_SELECT /\ gameState.placementQueue = << >>
                /\ gameState'.board # gameState.board
        \/ p = ACTION_SELECT /\ q = ACTION_MOVE
        \/ p = ACTION_MOVE /\ q \in {ACTION_WALL, ACTION_SELECT}
        \/ p = ACTION_WALL /\ q \in {ACTION_SELECT, GAME_OVER}
        \/ p \in ActionPhases /\ gameState.turnTimer = 0 /\ q \in {ACTION_SELECT, GAME_OVER}

C1_PhaseMachine == [][C1_PhaseStep]_vars

\* C2: a wall command changes the state only in ACTION_WALL, on the
\* moved-to cell and on a side that has no wall; on a side that carries a
\* wall it leaves the game state unchanged.
C2_WallOnOpenSideOnly ==
    [][\A c \in Coordinate, side \in WallSide :
          HandleWallClick(c, side) /\ gameState' # gameState
            => /\ gameState.phase = ACTION_WALL
               /\ gameState.movedTo = c
               /\ gameState.board[c].walls[side] = Null]_vars

\* C3: mirroring: the two cells of every interior edge record the same
\* wall value on their shared side.
C3_Mirrored ==
    \A c \in Coordinate, side \in WallSide :
        isValidCoordinate(Across(c, side)) =>
            gameState.board[c].walls[side]
                = gameState.board[Across(c, side)].walls[Opposite(side)]

\* C3 happens: a live board with a human-placed and an AI-placed wall on
\* interior edges.
C3_Witness ==
    /\ gameState.gameMode = PVAI
    /\ \E c, d \in Coordinate, s, t \in WallSide :
        /\ isValidCoordinate(Across(c, s)) /\ isValidCoordinate(Across(d, t))
        /\ gameState.board[c].walls[s] = RED
        /\ gameState.board[d].walls[t] = BLUE

\* Cells connected to the cells of S by orthogonal steps through unwalled
\* edges and empty cells.
RECURSIVE PathClosure(_, _)
PathClosure(board, S) ==
    LET more == {n \in Coordinate \ S :
                    /\ board[n].occupant = Null
                    /\ \E c \in S : Adjacent(c, n) /\ ~isBlocked(board, c, n)}
    IN  IF more = {} THEN S ELSE PathClosure(board, S \cup more)

\* Some piece of p and some piece of q are joined by such a path.
Connected(board, p, q) ==
    \E c \in PathClosure(board, PiecesOf(board, p)), n \in PiecesOf(board, q) :
        Adjacent(c, n) /\ ~isBlocked(board, c, n)

MutuallySeparated(board, players) ==
    \A p, q \in Range(players) : p # q => ~Connected(board, p, q)

\* C4: on the board of a started game that has left placement, the
\* end-of-game check is true exactly when no two active players are
\* connected, for two, three and four players.
C4_EndCheckIffSeparated ==
    (InGame /\ gameState.phase \in ActionPhases \cup {GAME_OVER}) =>
        (checkGameEndCondition(gameState.board)
            <=> MutuallySeparated(gameState.board, gameState.activePlayers))

\* C6: when the game is over, the recorded score of every active player is
\* the size of that player's reachable area on the final board.
C6_ScoresOfAllPlayers ==
    (InGame /\ gameState.phase = GAME_OVER) =>
        \A p \in Range(gameState.activePlayers) :
            /\ p \in DOMAIN gameState.scores
            /\ gameState.scores[p]
                = Cardinality(getReachableArea(gameState.board, p))

\* C7: a timeout leaves the state that the end-turn logic produces on the
\* board carrying the fallback wall: same phase, winner, scores, current
\* player and cleared selection.
C7_TimeoutAsEndTurn ==
    [][(/\ TimeoutDue(gameState)
        /\ \E randomPiece \in RandomPieces(gameState) :
           \E o \in ShufflesFor(gameState, randomPiece) :
              gameState' = handleRandomWallPlacement(gameState, randomPiece, o))
       => LET ended == endTurn([gameState EXCEPT !.board = gameState'.board])
          IN  /\ gameState'.phase = ended.phase
              /\ gameState'.winner = ended.winner
              /\ gameState'.scores = ended.scores
              /\ gameState'.currentPlayer = ended.currentPlayer
              /\ gameState'.selectedPiece = ended.selectedPiece
              /\ gameState'.movedTo = ended.movedTo
              /\ gameState'.validMoves = ended.validMoves]_vars

\* C8: GAME_OVER is terminal: a step taken in GAME_OVER either leaves the
\* board, the phase, the winner, the scores and the current player as they
\* are, or is a reset to the initial state.
C8_GameOverTerminal ==
    [][gameState.phase = GAME_OVER =>
          \/ /\ gameState'.board = gameState.board
             /\ gameState'.phase = GAME_OVER
             /\ gameState'.winner = gameState.winner
             /\ gameState'.scores = gameState.scores
             /\ gameState'.currentPlayer = gameState.currentPlayer
          \/ gameState' = InitialGameState]_vars

Max(S) == CHOOSE m \in S : \A o \in S : o <= m

\* The winner by the rules: the unique highest score, else among the
\* players tied for it the unique largest territory, else a draw.
ExpectedWinner(players, scores, territory) ==
    LET top == {p \in Range(players) :
                    scores[p] = Max({scores[o] : o \in Range(players)})}
        best == {p \in top : territory[p] = Max({territory[o] : o \in top})}
    IN  IF Cardinality(top) = 1 THEN CHOOSE p \in top : TRUE
        ELSE IF Cardinality(best) = 1 THEN CHOOSE p \in best : TRUE
        ELSE DRAW

\* C5: the winner resolved at end-turn is the player with the unique
\* highest score; failing that, the tied player with the strictly largest
\* territory; failing that, DRAW, for any number of tied players.
C5_WinnerResolution ==
    probe.winner # Pending =>
        probe.winner = ExpectedWinner(probe.players, probe.scores, probe.territory)

\* C5 happens: three of four players tie on the highest score and the
\* territory breaks the tie in favour of the last of them.
C5_Witness ==
    /\ probe.winner = YELLOW
    /\ Len(probe.players) = 4
    /\ probe.scores[BLUE] = probe.scores[YELLOW]
    /\ probe.scores[GREEN] = probe.scores[YELLOW]
    /\ probe.scores[RED] < probe.scores[YELLOW]
    /\ probe.territory[BLUE] = probe.territory[GREEN]
    /\ probe.territory[RED] > probe.territory[YELLOW]

CyclicSuccessor(current, activePlayers) ==
    LET i == CHOOSE k \in 1 .. Len(activePlayers) : activePlayers[k] = current
    IN  activePlayers[(i % Len(activePlayers)) + 1]

\* C9: within the action phase the current player changes only on a step
\* that ends a turn without ending the game, and then to the cyclic
\* successor in the active list, which is another player.
C9_TurnOrder ==
    [][(gameState.phase \in ActionPhases /\ gameState'.phase # PLACEMENT) =>
          /\ gameState'.activePlayers = gameState.activePlayers
          /\ IF turns' # turns /\ gameState'.phase # GAME_OVER
             THEN /\ gameState'.currentPlayer
                        = CyclicSuccessor(gameState.currentPlayer, gameState.activePlayers)
                  /\ gameState'.currentPlayer # gameState.currentPlayer
                  /\ gameState'.phase = ACTION_SELECT
             ELSE gameState'.currentPlayer = gameState.currentPlayer]_vars

\* C9 happens: in a three-player game two turns have ended and the third
\* player is to move.
C9_Witness ==
    /\ gameState.phase = ACTION_SELECT
    /\ Len(gameState.activePlayers) = 3
    /\ gameState.currentPlayer = GREEN
    /\ turns = 2

\* C10: an accepted wall command that does not end the game leaves the
\* chosen side owned by the mover on both cells of the edge, the end-of-game
\* check false on the new board, the phase ACTION_SELECT, the timer at the
\* limit, the selection, the moved-to cell and the valid moves cleared, and
\* every occupant where it was.
C10_AcceptedWall ==
    [][WallClickAccepted(gameState, gameState.movedTo) =>
        LET c == gameState.movedTo
        IN  \A side \in WallSide :
              (/\ gameState'.phase # GAME_OVER
               /\ turns' # turns
               /\ HandleWallClick(c, side))
              => /\ gameState'.board[c].walls[side] = gameState.currentPlayer
                 /\ isValidCoordinate(Across(c, side)) =>
                       gameState'.board[Across(c, side)].walls[Opposite(side)]
                            = gameState.currentPlayer
                 /\ ~checkGameEndCondition(gameState'.board)
                 /\ gameState'.phase = ACTION_SELECT
                 /\ gameState'.turnTimer = TURN_TIME_LIMIT
                 /\ gameState'.selectedPiece = NoCoordinate
                 /\ gameState'.movedTo = NoCoordinate
                 /\ gameState'.validMoves = << >>
                 /\ \A d \in Coordinate :
                       gameState'.board[d].occupant = gameState.board[d].occupant]_vars

\* C10 happens: a human player stands on the moved-to cell in ACTION_WALL
\* and a wall command on an open side is accepted without ending the game.
C10_Witness ==
    /\ InGame /\ ~EffectDue
    /\ gameState.phase = ACTION_WALL
    /\ \E side \in WallSide :
        /\ WallClickAccepted(gameState, gameState.movedTo)
        /\ gameState.board[gameState.movedTo].walls[side] = Null
        /\ handleWallClick(gameState, gameState.movedTo, side).phase = ACTION_SELECT

PieceCount(board) == Cardinality({c \in Coordinate : board[c].occupant # Null})

\* C11: during the placement of a started game the current player is the
\* player owed the next placement in round-robin order, each accepted
\* placement puts one piece of that player on an empty cell, and the phase
\* leaves PLACEMENT only after the 2n-th placement, for ACTION_SELECT with
\* the first player to move and the timer at the limit.
C11_PlacementRoundRobin ==
    [][(InGame /\ gameState.phase = PLACEMENT) =>
        LET n == Len(gameState.activePlayers)
            k == PieceCount(gameState.board)
            owed == gameState.activePlayers[(k % n) + 1]
        IN  /\ k < 2 * n
            /\ gameState.currentPlayer = owed
            /\ (gameState'.board # gameState.board /\ gameState'.gameMode # Null) =>
                    \E c \in Coordinate :
                        /\ gameState.board[c].occupant = Null
                        /\ gameState'.board
                            = [gameState.board EXCEPT ![c].occupant = owed]
            /\ gameState'.phase # PLACEMENT =>
                    /\ PieceCount(gameState'.board) = 2 * n
                    /\ gameState'.phase = ACTION_SELECT
                    /\ gameState'.currentPlayer = gameState.activePlayers[1]
                    /\ gameState'.turnTimer = TURN_TIME_LIMIT]_vars

InvalidCellCommand(gs, c) ==
    \/ gs.phase = PLACEMENT /\ gs.board[c].occupant # Null
    \/ gs.phase = ACTION_SELECT /\ gs.board[c].occupant # gs.currentPlayer
    \/ /\ gs.phase = ACTION_MOVE
       /\ c \notin Range(gs.validMoves)
       /\ gs.board[c].occupant # gs.currentPlayer
    \/ gs.phase = ACTION_WALL

InvalidWallCommand(gs, c) == gs.phase # ACTION_WALL \/ c # gs.movedTo

\* C12: an invalid command leaves the game state unchanged: a placement on
\* an occupied cell, the selection of a cell that does not hold a piece of
\* the current player, a move to a cell that is neither a stored valid
\* move nor an own piece, a cell command in ACTION_WALL, a wall command
\* outside ACTION_WALL or on a cell other than the moved-to cell, and an
\* unselect outside ACTION_MOVE.
C12_InvalidCommandNoOp ==
    /\ \A c \in Coordinate :
          InvalidCellCommand(gameState, c) => handleCellClick(gameState, c) = gameState
    /\ \A c \in Coordinate, side \in WallSide :
          InvalidWallCommand(gameState, c) =>
                handleWallClick(gameState, c, side) = gameState
    /\ gameState.phase # ACTION_MOVE => handleUnselectPiece(gameState) = gameState

\* C12 happens: a human player has selected a piece in a started game, and
\* some cell is neither a valid move nor an own piece, some cell is not
\* the moved-to cell, and a wall has been placed before.
C12_Witness ==
    /\ InGame /\ ~EffectDue /\ ~ClickBlocked(gameState)
    /\ gameState.phase = ACTION_MOVE
    /\ turns = 1
    /\ \E c \in Coordinate : InvalidCellCommand(gameState, c)
    /\ \E c \in WallClickTargets : InvalidWallCommand(gameState, c)

WallBetween(board, a, b) ==
    \E side \in WallSide : Across(a, side) = b /\ board[a].walls[side] # Null

\* One step of a move: to an orthogonal neighbour on the board, across no
\* wall, into an unoccupied cell.
MoveStep(board, a, b) ==
    /\ a \in Coordinate /\ b \in Coordinate
    /\ (a[1] = b[1] /\ (a[2] - b[2] = 1 \/ b[2] - a[2] = 1))
            \/ (a[2] = b[2] /\ (a[1] - b[1] = 1 \/ b[1] - a[1] = 1))
    /\ ~WallBetween(board, a, b)
    /\ board[b].occupant = Null

Abs(i) == IF i < 0 THEN -i ELSE i

Distance(a, b) == Abs(a[1] - b[1]) + Abs(a[2] - b[2])

ExpectedMoves(board, origin) ==
    LET first == {b \in Coordinate : MoveStep(board, origin, b)}
    IN  {origin} \cup first
            \cup UNION {{c \in Coordinate : MoveStep(board, b, c)} : b \in first}

\* C13: validMoves(board, origin) lists, without duplicates, exactly the
\* origin and the cells reached from it by one or two steps that stay on
\* the board, cross no wall and enter an unoccupied cell.
C13_ValidMoves ==
    probe.applied =>
        \A origin \in Coordinate :
            LET expected == ExpectedMoves(probe.board, origin)
            IN  /\ Range(probe.validMoves[origin]) = expected
                /\ Len(probe.validMoves[origin]) = Cardinality(expected)
                /\ probe.board = createInitialBoard =>
                        Len(probe.validMoves[origin])
                            = Cardinality({c \in Coordinate :
                                    Distance(origin, c) <= 2})

\* C13 happens: from one origin a wall closes a first step, a piece closes
\* another, and a cell two steps away is reached around them.
C13_Witness ==
    /\ probe.applied
    /\ \E origin \in Coordinate :
        /\ probe.board[origin].occupant = RED
        /\ \E b \in Coordinate : WallBetween(probe.board, origin, b)
        /\ \E b \in Coordinate :
                Adjacent(origin, b) /\ probe.board[b].occupant = BLUE
        /\ \E c \in Range(probe.validMoves[origin]) :
                c # origin /\ ~Adjacent(origin, c)

\* The cells of S and the empty cells joined to them by steps across no
\* wall through empty cells.
RECURSIVE EmptyClosure(_, _)
EmptyClosure(board, S) ==
    LET more == {n \in Coordinate \ S : \E c \in S : MoveStep(board, c, n)}
    IN  IF more = {} THEN S ELSE EmptyClosure(board, S \cup more)

\* C14: reachableArea(board, player) is exactly the cells occupied by the
\* player together with the empty cells joined to one of them by steps
\* across no wall through empty cells, and holds no cell of another player.
C14_ReachableArea ==
    probe.applied =>
        \A p \in ProbePlayers :
            /\ probe.reach[p] = EmptyClosure(probe.board, PiecesOf(probe.board, p))
            /\ \A c \in probe.reach[p] : probe.board[c].occupant \in {Null, p}

\* C14 happens: RED has two pieces, BLUE has a piece, and walls keep an
\* empty cell out of RED's area, which holds some other empty cell.
C14_Witness ==
    /\ probe.applied
    /\ Cardinality(PiecesOf(probe.board, RED)) = 2
    /\ PiecesOf(probe.board, BLUE) # {}
    /\ \E c \in Coordinate :
            probe.board[c].occupant = Null /\ c \notin probe.reach[RED]
    /\ \E c \in probe.reach[RED] : probe.board[c].occupant = Null

\* The component of a piece: the piece, the empty cells joined to it, and
\* the other pieces of the player that touch one of those empty cells.
RECURSIVE Territory(_, _, _)
Territory(board, p, S) ==
    LET more == {n \in Coordinate \ S :
                    \/ \E c \in S : MoveStep(board, c, n)
                    \/ /\ board[n].occupant = p
                       /\ \E c \in S : board[c].occupant = Null /\ MoveStep(board, n, c)}
    IN  IF more = {} THEN S ELSE Territory(board, p, S \cup more)

ExpectedLargestTerritory(board, p) ==
    IF PiecesOf(board, p) = {} THEN 0
    ELSE Max({Cardinality(Territory(board, p, {s})) : s \in PiecesOf(board, p)})

\* C15: largestTerritory(board, player) is the size of the largest
\* component of the player, a component holding every piece of the player
\* whose empty neighbourhood overlaps it and being counted once; it is 0
\* without pieces and at most the size of reachableArea(board, player).
C15_LargestTerritory ==
    probe.applied =>
        \A p \in ProbePlayers :
            /\ probe.largest[p] = ExpectedLargestTerritory(probe.board, p)
            /\ PiecesOf(probe.board, p) = {} => probe.largest[p] = 0
            /\ probe.largest[p] <= Cardinality(probe.reach[p])

\* C16: a wall put on an open side by placeWall leaves every player's
\* reachable area inside the area before it.
C16_WallShrinksArea ==
    [][probe'.walls = probe.walls + 1 =>
          \A p \in ProbePlayers :
              getReachableArea(probe'.board, p)
                    \subseteq getReachableArea(probe.board, p)]_vars

\* C16 happens: after walls were placed, an empty cell that is not a
\* neighbour of BLUE's piece lies outside the area of RED's pieces.
C16_Witness ==
    /\ probe.walls = 2
    /\ ~probe.applied
    /\ PiecesOf(probe.board, RED) # {}
    /\ PiecesOf(probe.board, BLUE) = {}
    /\ \E c \in Coordinate : c \notin getReachableArea(probe.board, RED)

\* The (piece, destination, open side) triples of the AI player.
LegalTriples(board, aiPlayer) ==
    {t \in PiecesOf(board, aiPlayer) \X Coordinate \X WallSide :
        /\ t[2] \in ExpectedMoves(board, t[1])
        /\ board[t[2]].walls[t[3]] = Null}

\* Ten times reachableArea(AI) - 1.2 x reachableArea(opponent) on the board
\* after the triple.
HeuristicScore10(board, aiPlayer, opponent, t) ==
    LET moved == [c \in Coordinate |->
                    IF c = t[2] THEN [board[c] EXCEPT !.occupant = aiPlayer]
                    ELSE IF c = t[1] THEN [board[c] EXCEPT !.occupant = Null]
                    ELSE board[c]]
        after == placeWall(moved, t[2], t[3], aiPlayer)
    IN  10 * Cardinality(EmptyClosure(after, PiecesOf(after, aiPlayer)))
            - 12 * Cardinality(EmptyClosure(after, PiecesOf(after, opponent)))

TripleOf(m) == <<m.from, m.to, m.wallSide>>

\* C17: whatever the random values, the triple calculateBestMove returns
\* has the highest unperturbed score among the legal triples.
C17_BestMoveMaximal ==
    probe.applied =>
        LET scores == {HeuristicScore10(probe.board, BLUE, RED, t) :
                            t \in LegalTriples(probe.board, BLUE)}
        IN  \A m \in probe.best :
                \A s \in scores :
                    HeuristicScore10(probe.board, BLUE, RED, TripleOf(m)) >= s

\* C18: calculateBestMove returns no move exactly when there is no legal
\* triple; a move it returns is a legal triple; and a single legal triple
\* is the only move returned.
C18_BestMoveLegal ==
    probe.applied =>
        LET legal == LegalTriples(probe.board, BLUE)
        IN  /\ probe.best = {} <=> legal = {}
            /\ \A m \in probe.best : TripleOf(m) \in legal
            /\ Cardinality(legal) = 1 => {TripleOf(m) : m \in probe.best} = legal

\* C18 happens: the AI has one piece that cannot move and one open side.
C18_Witness ==
    /\ probe.applied
    /\ Cardinality(PiecesOf(probe.board, BLUE)) = 1
    /\ Cardinality(LegalTriples(probe.board, BLUE)) = 1
    /\ Cardinality(probe.best) = 1

\* The state in which the player of the AI issues the commands by hand:
\* the guards that keep clicks out of the AI's turn are lifted.
ByHand(gs) == [gs EXCEPT !.gameMode = PVP, !.isAiThinking = FALSE]

\* selectPiece(from), movePieceTo(to), placeWall(to, side).
HumanSequence(gs, from, to, side) ==
    handleWallClick(handleCellClick(handleCellClick(gs, from), to), to, side)

\* The AI's move followed by its delayed endTurn.
AiTurn(gs, bestMove) == endTurn(AiApplyMove(gs, bestMove))

\* The callback of the AI is about to compute and apply a move.
AiAboutToMove ==
    /\ aiTimer /\ endTurnTimer = 0 /\ ~EffectDue
    /\ gameState.phase = ACTION_SELECT

\* The Game State without the fields that tell the AI's turn from a
\* human's.
Outcome(gs) ==
    [board |-> gs.board, currentPlayer |-> gs.currentPlayer, phase |-> gs.phase,
     selectedPiece |-> gs.selectedPiece, validMoves |-> gs.validMoves,
     movedTo |-> gs.movedTo, turnTimer |-> gs.turnTimer,
     winner |-> gs.winner, scores |-> gs.scores]

\* C19: the state after the AI's turn equals the state after the same
\* player's selectPiece(from), movePieceTo(to), placeWall(to, side) from the
\* same state.
C19_AiMoveAsHumanMove ==
    AiAboutToMove =>
        \A bestMove \in calculateBestMove(gameState.board, BLUE, RED) :
            Outcome(AiTurn(gameState, bestMove))
                = Outcome(HumanSequence(ByHand(gameState), bestMove.from,
                                        bestMove.to, bestMove.wallSide))

\* Outcome without the selection.
OutcomeButSelection(gs) ==
    [board |-> gs.board, currentPlayer |-> gs.currentPlayer, phase |-> gs.phase,
     movedTo |-> gs.movedTo, turnTimer |-> gs.turnTimer,
     winner |-> gs.winner, scores |-> gs.scores]

\* How far the two states agree: in full when the game goes on; when the
\* move ends the game, in everything but the selection, which the AI never
\* makes and the human sequence keeps.
AiTurnAgreesButSelection ==
    AiAboutToMove =>
        \A bestMove \in calculateBestMove(gameState.board, BLUE, RED) :
            LET ai == AiTurn(gameState, bestMove)
                human == HumanSequence(ByHand(gameState), bestMove.from,
                                       bestMove.to, bestMove.wallSide)
            IN  /\ OutcomeButSelection(ai) = OutcomeButSelection(human)
                /\ ai.selectedPiece = NoCoordinate /\ ai.validMoves = << >>
                /\ IF ai.phase = GAME_OVER
                   THEN /\ human.selectedPiece = bestMove.from
                        /\ human.validMoves = getValidMoves(gameState.board, bestMove.from)
                        /\ ai.movedTo = bestMove.to
                   ELSE Outcome(ai) = Outcome(human)

\* C20: after a reset the freshly reinitialised state is changed by the
\* next user command only (the start of a game), never by a callback the
\* AI's turn left pending.
C20_ResetDiscardsAi ==
    [][(gameState = InitialGameState /\ gameState' # gameState) =>
            /\ endTurnTimer' = endTurnTimer
            /\ \E mode \in GameMode, playerCount \in 2 .. MaxPlayerCount :
                    gameState' = handleStartGame(gameState, mode, playerCount)]_vars

\* It is the AI's turn in a game against the AI.
AiToPlay(gs) ==
    /\ gs.gameMode = PVAI
    /\ gs.currentPlayer = BLUE
    /\ gs.phase \in {PLACEMENT, ACTION_SELECT}

\* The AI has finished: the turn is another player's or the game is over.
AiFinished(gs) ==
    /\ ~gs.isAiThinking
    /\ gs.currentPlayer # BLUE \/ gs.phase = GAME_OVER

\* C21: in a game against the AI, once it is the AI's turn (placement or
\* action phase) the AI finishes, with the turn passed on or the game
\* over, unless the game is reset first; the forced endTurn of the
\* no-move and the catch branch finishes it as well.
C21_AiNeverStuck ==
    /\ ((AiToPlay(gameState) /\ (gameState.phase = ACTION_SELECT => turns < MaxTurns))
            ~> (~InGame \/ AiFinished(gameState)))
    /\ []((AiToPlay(gameState) /\ gameState.phase = ACTION_SELECT)
            => AiFinished(endTurn(gameState)))

\* C21 happens: the AI has moved and its delayed endTurn has passed the
\* turn on.
C21_Witness ==
    /\ gameState.gameMode = PVAI
    /\ gameState.phase = ACTION_SELECT
    /\ gameState.currentPlayer # BLUE
    /\ ~gameState.isAiThinking
    /\ \E c \in Coordinate : \E side \in WallSide : gameState.board[c].walls[side] = BLUE

\* The sides that carry a wall.
WalledSides(board) ==
    {cs \in Coordinate \X WallSide : board[cs[1]].walls[cs[2]] # Null}

\* C22: within a match (a step that neither resets nor starts a game) every
\* side that carries a wall on the live board still carries one after the
\* step.
C22_WallsStay ==
    [][(InGame /\ gameState'.gameMode # Null)
            => WalledSides(gameState.board) \subseteq WalledSides(gameState'.board)]_vars

\* C22 happens: a wall was placed on a board that carried another player's
\* wall and both are there.
C22_Witness ==
    /\ InGame
    /\ \E cs \in WalledSides(gameState.board) :
            gameState.board[cs[1]].walls[cs[2]] = RED
    /\ \E cs \in WalledSides(gameState.board) :
            gameState.board[cs[1]].walls[cs[2]] = BLUE

\* The sides that lie on the outer edge of the board.
BoundarySides ==
    {cs \in Coordinate \X WallSide : ~isValidCoordinate(Across(cs[1], cs[2]))}

WithWall(board, cell, side, player) ==
    [c \in Coordinate |->
        [board[c] EXCEPT !.walls =
            [s \in WallSide |->
                IF \/ c = cell /\ s = side
                   \/ c = Across(cell, side) /\ s = Opposite(side)
                THEN player ELSE board[c].walls[s]]]]

\* The cells the fallback may wall.
FallbackCells(gs) ==
    IF gs.phase = ACTION_WALL /\ gs.movedTo # NoCoordinate
    THEN {gs.movedTo}
    ELSE PiecesOf(gs.board, gs.currentPlayer)

\* C24: when the turn timer is zero in an action phase the fallback walls
\* the moved-to cell (ACTION_WALL) or else a cell of the current player, on
\* a side that was open, for the current player, and adds no other wall;
\* with all four sides of the cell walled, or no cell to wall, the board is
\* unchanged; in every case the turn ends.
C24_TimeoutFallback ==
    probe.applied =>
        \A new \in probe.fallback :
            /\ \/ \E cell \in FallbackCells(gameState) :
                    IF \A side \in WallSide : gameState.board[cell].walls[side] # Null
                    THEN new.board = gameState.board
                    ELSE \E side \in WallSide :
                            /\ gameState.board[cell].walls[side] = Null
                            /\ new.board = WithWall(gameState.board, cell, side,
                                                    gameState.currentPlayer)
               \/ FallbackCells(gameState) = {} /\ new.board = gameState.board
            /\ \/ new.phase = GAME_OVER
               \/ /\ new.phase = ACTION_SELECT
                  /\ new.currentPlayer
                        = CyclicSuccessor(gameState.currentPlayer, gameState.activePlayers)
                  /\ new.turnTimer = TURN_TIME_LIMIT

\* C24 happens: the fallback ran on a moved-to cell with all four sides
\* walled and passed the turn on.
C24_Witness ==
    /\ probe.applied
    /\ gameState.phase = ACTION_WALL
    /\ \A side \in WallSide : gameState.board[gameState.movedTo].walls[side] # Null
    /\ \E new \in probe.fallback : new.phase = ACTION_SELECT

\* The fallback drew one of two pieces and an open side of it.
FallbackDrewPiece ==
    /\ probe.applied
    /\ gameState.phase = ACTION_SELECT
    /\ Cardinality(PiecesOf(gameState.board, gameState.currentPlayer)) = 2
    /\ Cardinality(probe.fallback) > 4

\* A turn of a started game is under way.
InTurn(gs) == gs.gameMode # Null /\ gs.phase \in ActionPhases

\* The step ends the turn (or the match, by a reset).
TurnEnds ==
    \/ gameState'.phase = GAME_OVER
    \/ gameState'.currentPlayer # gameState.currentPlayer
    \/ gameState'.gameMode = Null

\* C25: every turn ends within TURN_TIME_LIMIT ticks.  A turn begins with
\* the timer at TURN_TIME_LIMIT; while it lasts the timer changes only by
\* a tick, which takes one off; at zero the next step ends the turn; and
\* with ticks kept arriving the turn does end, whatever the player does
\* (turns counts the turns ended, so that every turn ends when the count
\* keeps growing while a turn is under way).
C25_EveryTurnEnds ==
    /\ [][/\ (InTurn(gameState') /\ (~InTurn(gameState) \/ TurnEnds))
                => gameState'.turnTimer = TURN_TIME_LIMIT
          /\ (InTurn(gameState) /\ ~TurnEnds /\ gameState'.turnTimer # gameState.turnTimer)
                => /\ gameState.turnTimer >= 1
                   /\ gameState'.turnTimer = gameState.turnTimer - 1
          /\ (InTurn(gameState) /\ gameState.turnTimer = 0 /\ gameState' # gameState)
                => TurnEnds]_vars
    /\ [](InTurn(gameState) => gameState.turnTimer \in 0 .. TURN_TIME_LIMIT)
    /\ (InTurn(gameState) /\ turns < MaxTurns)
            ~> (~InTurn(gameState) \/ turns = MaxTurns)
    /\ [][turns' # turns => TurnEnds]_vars

\* C25 happens: the timer of a turn has run down to zero and the fallback
\* is about to end the turn.
C25_Witness ==
    /\ InTurn(gameState)
    /\ gameState.turnTimer = 0
    /\ gameState.phase = ACTION_MOVE

\* C26: at most one tick source runs, timerRef holds it, and none runs in
\* PLACEMENT, in GAME_OVER or without a game mode; a change of phase or
\* current player leaves no tick source of the state before it running
\* beside the new one.
C26_OneTickSource ==
    /\ tickSource.active <= 1
    /\ tickSource.active = 1 => tickSource.live
    /\ (gameState.phase \in {PLACEMENT, GAME_OVER} \/ gameState.gameMode = Null)
            => tickSource.active = 0

\* C26 happens: a tick source runs in the second turn of a game, after the
\* changes of phase and player of the first.
C26_Witness ==
    /\ tickSource.active = 1
    /\ turns = 1
    /\ gameState.phase = ACTION_MOVE

\* C27: a move is accepted for every cell of the valid moves of the
\* selected piece, and an accepted move leaves the destination occupied by
\* the current player, the origin empty unless it is the destination,
\* movedTo the destination, the phase ACTION_WALL, and every wall, every
\* other occupant, the current player and the timer as they were.
C27_MoveChangesOccupancyOnly ==
    /\ []((InGame /\ gameState.phase = ACTION_MOVE /\ ~ClickBlocked(gameState)
                /\ gameState.selectedPiece # NoCoordinate)
            => \A c \in Range(gameState.validMoves) :
                    LET new == handleCellClick(gameState, c)
                    IN  new.phase = ACTION_WALL /\ new.movedTo = c)
    /\ [][(InGame /\ gameState.phase = ACTION_MOVE /\ gameState'.phase = ACTION_WALL)
            => LET from == gameState.selectedPiece
                   to == gameState'.movedTo
               IN  /\ from \in Coordinate
                   /\ to \in Range(gameState.validMoves)
                   /\ gameState'.board[to].occupant = gameState.currentPlayer
                   /\ to # from => gameState'.board[from].occupant = Null
                   /\ to = from => gameState'.board = gameState.board
                   /\ \A c \in Coordinate :
                        /\ gameState'.board[c].walls = gameState.board[c].walls
                        /\ c \notin {from, to}
                            => gameState'.board[c].occupant = gameState.board[c].occupant
                   /\ gameState'.currentPlayer = gameState.currentPlayer
                   /\ gameState'.turnTimer = gameState.turnTimer]_vars

\* C27 happens: a piece has moved off its origin onto a cell of a board
\* that carries a wall.
C27_Witness ==
    /\ InGame
    /\ gameState.phase = ACTION_WALL
    /\ gameState.selectedPiece # NoCoordinate
    /\ gameState.movedTo # gameState.selectedPiece
    /\ gameState.board[gameState.selectedPiece].occupant = Null
    /\ WalledSides(gameState.board) # {}

\* The state but for the selection and the phase.
ButSelection(gs) ==
    [gs EXCEPT !.selectedPiece = NoCoordinate, !.validMoves = << >>,
               !.phase = ACTION_SELECT]

\* C28: a click on an own piece in ACTION_SELECT, and on another own piece
\* in ACTION_MOVE, is accepted; a step that selects a piece leaves it as
\* selectedPiece with the valid moves of that piece on the board, the phase
\* ACTION_MOVE, and the board, the current player, the timer and the rest
\* of the state as they were.
C28_SelectAndReselect ==
    /\ []((InGame /\ ~ClickBlocked(gameState)
                /\ gameState.phase \in {ACTION_SELECT, ACTION_MOVE})
            => \A c \in PiecesOf(gameState.board, gameState.currentPlayer) :
                    c # gameState.selectedPiece =>
                        LET new == handleCellClick(gameState, c)
                        IN  new.selectedPiece = c /\ new.phase = ACTION_MOVE)
    /\ [][(/\ InGame
           /\ gameState.phase \in {ACTION_SELECT, ACTION_MOVE}
           /\ gameState'.phase = ACTION_MOVE
           /\ gameState'.selectedPiece # gameState.selectedPiece)
            => LET piece == gameState'.selectedPiece
               IN  /\ piece \in PiecesOf(gameState.board, gameState.currentPlayer)
                   /\ Range(gameState'.validMoves) = ExpectedMoves(gameState.board, piece)
                   /\ Len(gameState'.validMoves)
                        = Cardinality(ExpectedMoves(gameState.board, piece))
                   /\ ButSelection(gameState') = ButSelection(gameState)]_vars

\* C28 happens: in ACTION_MOVE the second piece of the player is selected,
\* on a board with a wall, and its valid moves are not those of the first.
C28_Witness ==
    /\ InGame
    /\ gameState.phase = ACTION_MOVE
    /\ WalledSides(gameState.board) # {}
    /\ \E other \in PiecesOf(gameState.board, gameState.currentPlayer) :
            /\ RowMajorIndex(other) < RowMajorIndex(gameState.selectedPiece)
            /\ getValidMoves(gameState.board, other) # gameState.validMoves

\* The fields of the game state that an unselect may change.
SelectionFields == {"phase", "selectedPiece", "validMoves"}

\* C29: an unselect in ACTION_MOVE leaves ACTION_SELECT, no selected piece
\* and no valid moves, and every other field (board, current player,
\* timer, scores, winner among them) as it was; a select followed by an
\* unselect gives back the state before the select; a step within a turn
\* from ACTION_MOVE to ACTION_SELECT is such an unselect.
C29_Unselect ==
    /\ []((InGame /\ gameState.phase = ACTION_MOVE)
            => LET new == handleUnselectPiece(gameState)
               IN  /\ new.phase = ACTION_SELECT
                   /\ new.selectedPiece = NoCoordinate
                   /\ new.validMoves = << >>
                   /\ DOMAIN new = DOMAIN gameState
                   /\ \A f \in DOMAIN gameState \ SelectionFields :
                            new[f] = gameState[f])
    /\ []((InGame /\ gameState.phase = ACTION_SELECT /\ ~ClickBlocked(gameState))
            => \A c \in PiecesOf(gameState.board, gameState.currentPlayer) :
                    /\ handleCellClick(gameState, c).phase = ACTION_MOVE
                    /\ handleUnselectPiece(handleCellClick(gameState, c)) = gameState)
    /\ [][(/\ InGame
           /\ gameState.phase = ACTION_MOVE
           /\ gameState'.phase = ACTION_SELECT
           /\ turns' = turns)
            => /\ gameState'.selectedPiece = NoCoordinate
               /\ gameState'.validMoves = << >>
               /\ \A f \in DOMAIN gameState \ SelectionFields :
                        gameState'[f] = gameState[f]]_vars

\* C29 happens: a piece is selected with valid moves stored, on a board
\* with a wall, after the timer has counted down.
C29_Witness ==
    /\ InGame
    /\ gameState.phase = ACTION_MOVE
    /\ gameState.selectedPiece # NoCoordinate
    /\ Len(gameState.validMoves) > 1
    /\ WalledSides(gameState.board) # {}
    /\ gameState.turnTimer < TURN_TIME_LIMIT
    /\ handleUnselectPiece(gameState) # gameState

\* C30: applyWall of an open side of a cell, boundary sides included,
\* followed by removeWall of the same side of the same cell gives back the
\* board, every occupant and every wall slot of every cell; so does
\* placeWall followed by removeWall.
C30_ApplyRemoveRoundTrip ==
    /\ probe.applied => probe.undone = probe.board
    /\ \A c \in UndoCells, side \in WallSide, p \in ProbePlayers :
            probe.board[c].walls[side] = Null
                => removeWall(placeWall(probe.board, c, side, p), c, side) = probe.board

\* C30 happens: a wall was applied to and removed from a board that holds
\* a piece and walls, on a boundary side.
C30_Witness ==
    /\ probe.applied
    /\ probe.walled # probe.board
    /\ probe.undone = probe.board
    /\ PiecesOf(probe.board, BLUE) # {}
    /\ Cardinality(WalledSides(probe.board)) > 2
    /\ \E e \in BoundarySides :
            /\ probe.board[e[1]].walls[e[2]] = Null
            /\ probe.walled[e[1]].walls[e[2]] = BLUE

\* An interior side was applied and removed next to a wall of the board.
C30_InteriorWitness ==
    /\ probe.applied
    /\ probe.undone = probe.board
    /\ WalledSides(probe.board) # {}
    /\ \E c \in UndoCells, side \in WallSide :
            /\ isValidCoordinate(Across(c, side))
            /\ probe.walled[c].walls[side] = BLUE
            /\ probe.walled[Across(c, side)].walls[Opposite(side)] = BLUE
            /\ probe.board[c].walls[side] = Null

\* C31: when calculateBestMove returns, the board it was given has the
\* occupants and walls it had before the call, and the working copy is
\* equal to that board again.
C31_SearchLeavesBoard ==
    probe.applied =>
        /\ probe.given = probe.board
        /\ probe.working = probe.board

\* C31 happens: the search has run on a board with two BLUE pieces, a RED
\* piece and walls, and it evaluated moves with a wall.
C31_Witness ==
    /\ probe.applied
    /\ probe.given = probe.board
    /\ probe.working = probe.board
    /\ Cardinality(PiecesOf(probe.board, BLUE)) = 2
    /\ PiecesOf(probe.board, RED) # {}
    /\ WalledSides(probe.board) # {}
    /\ \E m \in calculateBestMove(probe.board, BLUE, RED) : m.to # m.from

\* C32: the turn timer stays within 0 .. TURN_TIME_LIMIT; no step taken in
\* PLACEMENT or GAME_OVER lowers it; and a step that begins a turn (the last
\* placement, an end of turn or a timeout fallback that passes the turn)
\* leaves it at TURN_TIME_LIMIT.
C32_TurnTimer ==
    /\ [](gameState.turnTimer \in 0 .. TURN_TIME_LIMIT)
    /\ [][gameState.phase \in {PLACEMENT, GAME_OVER}
            => gameState'.turnTimer >= gameState.turnTimer]_vars
    /\ [][(/\ gameState'.gameMode # Null
           /\ gameState'.phase = ACTION_SELECT
           /\ \/ gameState.phase = PLACEMENT
              \/ gameState'.currentPlayer # gameState.currentPlayer
              \/ turns' # turns)
            => gameState'.turnTimer = TURN_TIME_LIMIT]_vars

\* C32 happens: the second turn of a game has begun, with the timer at
\* TURN_TIME_LIMIT, after the first turn ended with a wall.
C32_Witness ==
    /\ InGame
    /\ gameState.phase = ACTION_SELECT
    /\ turns = 1
    /\ gameState.turnTimer = TURN_TIME_LIMIT
    /\ WalledSides(gameState.board) # {}

\* The timer stands below TURN_TIME_LIMIT in GAME_OVER, where no tick
\* source runs.
C32_StoppedWitness ==
    /\ gameState.phase = GAME_OVER
    /\ gameState.turnTimer \in 1 .. TURN_TIME_LIMIT - 1
    /\ tickSource.active = 0

\* C33: in GAME_OVER the winner is a player or DRAW, whichever step ended
\* the game, and in every other phase of a started game the winner is
\* null.
C33_WinnerIffGameOver ==
    /\ gameState.phase = GAME_OVER => gameState.winner \in Player \cup {DRAW}
    /\ (InGame /\ gameState.phase # GAME_OVER) => gameState.winner = Null

\* The occupied cells of a board.
Occupied(board) == {c \in Coordinate : board[c].occupant # Null}

\* C34: from the end of placement to the end of the match every active
\* player has exactly two pieces on the board, no cell holds a piece of a
\* player who is not active, and no step changes the number of occupied
\* cells.
C34_PieceConservation ==
    /\ []((InGame /\ gameState.phase \in ActionPhases \cup {GAME_OVER})
            => /\ \A p \in Range(gameState.activePlayers) :
                    Cardinality(PiecesOf(gameState.board, p)) = 2
               /\ \A c \in Occupied(gameState.board) :
                    gameState.board[c].occupant \in Range(gameState.activePlayers))
    /\ [][(/\ InGame
           /\ gameState.phase \in ActionPhases
           /\ gameState'.gameMode # Null
           /\ gameState'.phase \in ActionPhases \cup {GAME_OVER})
            => Cardinality(Occupied(gameState'.board))
                    = Cardinality(Occupied(gameState.board))]_vars

\* The sum of the entries of a score map.
RECURSIVE SumOver(_, _)
SumOver(scores, players) ==
    IF players = {} THEN 0
    ELSE LET p == CHOOSE q \in players : TRUE
         IN  scores[p] + SumOver(scores, players \ {p})

\* C35: in GAME_OVER the reachable areas of two distinct active players
\* share no cell, and the recorded scores add up to no more than the
\* number of cells of the board.
C35_AreasDisjoint ==
    (InGame /\ gameState.phase = GAME_OVER)
        => /\ \A p, q \in Range(gameState.activePlayers) :
                p # q => getReachableArea(gameState.board, p)
                            \cap getReachableArea(gameState.board, q) = {}
           /\ SumOver(gameState.scores, DOMAIN gameState.scores)
                    <= Cardinality(Coordinate)

\* C36: at the start of a turn (ACTION_SELECT of a started game) the
\* current player has a legal triple: an own piece, a destination among its
\* valid moves and an open side of the destination; and calculateBestMove
\* returns a move when the AI is to play.
C36_TurnCanBeCompleted ==
    (InGame /\ gameState.phase = ACTION_SELECT)
        => /\ LegalTriples(gameState.board, gameState.currentPlayer) # {}
           /\ (gameState.gameMode = PVAI /\ gameState.currentPlayer = BLUE)
                => calculateBestMove(gameState.board, BLUE, RED) # {}

\* The wall slots that differ between two boards.
WallsChanged(before, after) ==
    {cs \in Coordinate \X WallSide :
        after[cs[1]].walls[cs[2]] # before[cs[1]].walls[cs[2]]}

\* The two slots of one edge, or the one slot of a boundary side.
EdgeSlots(c, side) ==
    {<<c, side>>} \cup
        (IF isValidCoordinate(Across(c, side))
         THEN {<<Across(c, side), Opposite(side)>>} ELSE {})

\* The AI has moved and walled and its delayed endTurn has not run.
AfterAiMove(gs) ==
    gs.gameMode = PVAI /\ gs.currentPlayer = BLUE /\ gs.phase = ACTION_WALL

\* C37: within one turn at most one move is applied and at most one wall
\* is added.  A turn starts with movedTo null; a step that moves a piece or
\* sets movedTo is taken with movedTo null and leaves ACTION_WALL of the
\* same player; a step that changes a wall slot changes one edge, and it
\* either ends the turn or is the AI's move; once the AI has moved no step
\* changes the board before its turn ends.
C37_OneMoveOneWall ==
    /\ []((InGame /\ gameState.phase = ACTION_SELECT)
            => gameState.movedTo = NoCoordinate)
    /\ [][(/\ InGame /\ gameState'.gameMode # Null
           /\ gameState.phase \in ActionPhases
           /\ \/ Occupied(gameState'.board) # Occupied(gameState.board)
              \/ \E c \in Coordinate :
                    gameState'.board[c].occupant # gameState.board[c].occupant
              \/ (gameState'.movedTo # gameState.movedTo
                    /\ gameState'.movedTo # NoCoordinate))
            => /\ gameState.movedTo = NoCoordinate
               /\ gameState'.phase = ACTION_WALL
               /\ gameState'.currentPlayer = gameState.currentPlayer]_vars
    /\ [][(/\ InGame /\ gameState'.gameMode # Null
           /\ gameState.phase \in ActionPhases
           /\ WallsChanged(gameState.board, gameState'.board) # {})
            => /\ \E c \in Coordinate, side \in WallSide :
                    WallsChanged(gameState.board, gameState'.board)
                        \subseteq EdgeSlots(c, side)
               /\ ~AfterAiMove(gameState)
               /\ \/ gameState'.phase = GAME_OVER
                  \/ /\ gameState'.phase = ACTION_SELECT
                     /\ gameState'.currentPlayer # gameState.currentPlayer
                  \/ /\ AfterAiMove(gameState')
                     /\ gameState.phase = ACTION_SELECT]_vars
    /\ [][(AfterAiMove(gameState) /\ gameState'.gameMode # Null)
            => gameState'.board = gameState.board]_vars

\* C37 happens: the AI has moved and walled, its think timer is armed
\* again by the change of the board, and its delayed endTurn is pending.
C37_Witness ==
    /\ AfterAiMove(gameState)
    /\ gameState.isAiThinking
    /\ aiTimer
    /\ endTurnTimer > 0
    /\ gameState.movedTo # NoCoordinate
    /\ \E cs \in WalledSides(gameState.board) :
            gameState.board[cs[1]].walls[cs[2]] = BLUE

\* C38: the selection agrees with the phase in every state of a started
\* game: in ACTION_SELECT there is no selected piece, no moved-to cell and
\* no valid move; in ACTION_MOVE the selected piece is a cell of the current
\* player and validMoves are the valid moves of that piece on the board; in
\* ACTION_WALL the moved-to cell is a cell of the current player.
C38_SelectionCoherent ==
    InGame =>
        /\ gameState.phase = ACTION_SELECT
            => /\ gameState.selectedPiece = NoCoordinate
               /\ gameState.movedTo = NoCoordinate
               /\ gameState.validMoves = << >>
        /\ gameState.phase = ACTION_MOVE
            => /\ gameState.selectedPiece \in
                        PiecesOf(gameState.board, gameState.currentPlayer)
               /\ gameState.validMoves
                        = getValidMoves(gameState.board, gameState.selectedPiece)
               /\ Range(gameState.validMoves)
                        = ExpectedMoves(gameState.board, gameState.selectedPiece)
        /\ gameState.phase = ACTION_WALL
            => gameState.movedTo \in PiecesOf(gameState.board, gameState.currentPlayer)

\* C38 happens: the AI has moved and walled in the second turn of a game,
\* and ACTION_WALL holds the cell it moved to.
C38_Witness ==
    /\ AfterAiMove(gameState)
    /\ turns = 1
    /\ gameState.movedTo \in PiecesOf(gameState.board, BLUE)
    /\ Cardinality(WalledSides(gameState.board)) > 2

\* A human player's piece is selected in the second turn of a game, with
\* a wall of the first turn on the board.
C38_MoveWitness ==
    /\ InGame
    /\ gameState.phase = ACTION_MOVE
    /\ turns = 1
    /\ WalledSides(gameState.board) # {}
    /\ Len(gameState.validMoves) > 1

\* It is the AI's turn, or the AI is thinking, in a PvAI game.
AiBusy(gs) ==
    gs.gameMode = PVAI /\ (gs.currentPlayer = BLUE \/ gs.isAiThinking)

\* C39: in a PvAI game, while the current player is the AI player or the
\* AI is thinking, no cell command (place, select, move) and no wall
\* command changes the game state.  (resetGame reads no state and is
\* honoured at any time.)
C39_HumanCommandsIgnored ==
    AiBusy(gameState) =>
        /\ \A c \in Coordinate : handleCellClick(gameState, c) = gameState
        /\ \A c \in Coordinate, side \in WallSide :
                handleWallClick(gameState, c, side) = gameState

\* C39 happens: the AI has moved and walled and its endTurn is pending, so
\* that the phase is ACTION_WALL with a moved-to cell, and a reset would
\* change the state.
C39_Witness ==
    /\ AiBusy(gameState)
    /\ gameState.phase = ACTION_WALL
    /\ gameState.movedTo # NoCoordinate
    /\ gameState.isAiThinking
    /\ endTurnTimer > 0
    /\ resetGame # gameState

\* The AI is to place a piece in PLACEMENT, with an empty cell to click.
C39_PlacementWitness ==
    /\ AiBusy(gameState)
    /\ gameState.phase = PLACEMENT
    /\ \E c \in Coordinate : gameState.board[c].occupant = Null

====
